---------------------------- MODULE Spec2Model ----------------------------
(***************************************************************************)
(* A model of codeshot: the parameter validators (src/utils/validation.py), *)
(* the generator pipeline (src/core/generator.py) and the response         *)
(* formatter.                                                              *)
(*                                                                         *)
(* Python values are tagged records [k, v]; k is the Python type.  A str   *)
(* is a TLA+ string, an int a TLA+ integer, a bool a TLA+ boolean and a    *)
(* float is carried by its repr text (it is only ever formatted).          *)
(***************************************************************************)
EXTENDS Integers, Sequences, FiniteSets, TLC

VARIABLES validation_result, ret, last, prev, calls, geo, shot, tool, sys_path, bg, det

vars == <<validation_result, ret, last, prev, calls, geo, shot, tool, sys_path, bg, det>>

---------------------------------------------------------------------------
(* Python values *)

None == [k |-> "none", v |-> "None"]

PyStr(s) == [k |-> "str", v |-> s]

PyInt(i) == [k |-> "int", v |-> i]

PyBool(b) == [k |-> "bool", v |-> b]

PyFloat(r) == [k |-> "float", v |-> r]

\* str(x), as an f-string formats a value
PyRepr(x) ==
    CASE x.k = "str" -> x.v
      [] x.k = "int" -> ToString(x.v)
      [] x.k = "bool" -> (IF x.v THEN "True" ELSE "False")
      [] OTHER -> x.v

\* the one element of a singleton set.  A value is computed once by binding it
\* as the element of a singleton.
Only(S) == CHOOSE x \in S : TRUE

\* bool(x): Python truthiness
Truthy(x) ==
    CASE x.k = "none" -> FALSE
      [] x.k = "str" -> Len(x.v) > 0
      [] x.k = "int" -> x.v # 0
      [] x.k = "bool" -> x.v
      [] OTHER -> TRUE

\* the numeric value of an int (bool is a subclass of int: True is 1)
IntValue(x) == IF x.k = "bool" THEN (IF x.v THEN 1 ELSE 0) ELSE x.v

Range(s) == {s[i] : i \in DOMAIN s}

\* x in list, for a list of str: == is false between a str and any other type
PyIn(x, list) == x.k = "str" /\ x.v \in Range(list)

CharAt(s, i) == SubSeq(s, i, i)

\* s.startswith(p)
StartsWith(s, p) == Len(s) >= Len(p) /\ SubSeq(s, 1, Len(p)) = p

UpperCase == "ABCDEFGHIJKLMNOPQRSTUVWXYZ"

LowerCase == "abcdefghijklmnopqrstuvwxyz"

\* c.upper() and c.lower() of the ASCII letters, as tables
ToUpper ==
    [c \in {CharAt(LowerCase, i) : i \in 1..Len(LowerCase)} |->
        CharAt(UpperCase, CHOOSE i \in 1..Len(LowerCase) : CharAt(LowerCase, i) = c)]

ToLower ==
    [c \in {CharAt(UpperCase, i) : i \in 1..Len(UpperCase)} |->
        CharAt(LowerCase, CHOOSE i \in 1..Len(UpperCase) : CharAt(UpperCase, i) = c)]

IsUpper(c) == c \in DOMAIN ToLower

IsLower(c) == c \in DOMAIN ToUpper

LowerChar(c) == IF IsUpper(c) THEN ToLower[c] ELSE c

UpperChar(c) == IF IsLower(c) THEN ToUpper[c] ELSE c

RECURSIVE Lower(_)
\* s.lower()
Lower(s) == IF Len(s) = 0 THEN "" ELSE LowerChar(CharAt(s, 1)) \o Lower(Tail(s))

\* s.capitalize(): first character upper-cased, the rest lower-cased
Capitalize(s) == IF Len(s) = 0 THEN "" ELSE UpperChar(CharAt(s, 1)) \o Lower(Tail(s))

RECURSIVE TitleFrom(_, _)
TitleFrom(s, prevCased) ==
    IF Len(s) = 0 THEN ""
    ELSE LET c == CharAt(s, 1)
             cased == IsUpper(c) \/ IsLower(c)
         IN (IF prevCased THEN LowerChar(c) ELSE UpperChar(c)) \o TitleFrom(Tail(s), cased)

\* s.title(): a cased character is upper-cased after an uncased one, else lower-cased
Title(s) == TitleFrom(s, FALSE)

RECURSIVE Join(_, _)
\* sep.join(list)
Join(list, sep) ==
    IF Len(list) = 0 THEN ""
    ELSE IF Len(list) = 1 THEN list[1]
    ELSE list[1] \o sep \o Join(Tail(list), sep)

\* pat in text
Contains(text, pat) ==
    \E i \in 1..(Len(text) - Len(pat) + 1) : SubSeq(text, i, i + Len(pat) - 1) = pat

---------------------------------------------------------------------------
(* config/constants.py *)

AVAILABLE_THEMES ==
    << "dracula", "nord", "monokai", "material", "one-dark", "gruvbox-dark",
       "tokyo-night", "catppuccin", "github-dark", "solarized-dark", "zenburn",
       "vim", "native", "fruity", "rrt", "paraiso-dark", "stata-dark",
       "nord-darker", "emacs", "terminal", "hacker", "cyberpunk",
       "solarized-light", "vs", "github-light", "xcode", "atom-light",
       "intellij-light", "sublime-light", "friendly", "pastie", "tango",
       "murphy", "colorful", "gruvbox-light", "paraiso-light", "stata-light" >>

AVAILABLE_FRAMES == << "macos", "windows", "floating", "minimal", "none" >>

AVAILABLE_BACKGROUNDS ==
    << "purple", "cyan", "orange", "pink", "green", "blue", "red", "yellow",
       "magenta", "teal", "lime", "indigo", "violet", "coral", "turquoise",
       "neon-purple", "transparent",
       "#1a1a2e", "#16213e", "#0f3460", "#533483", "#7209b7", "#2d1b69",
       "#0c0c0c", "#1e1e1e", "#2d2d2d", "#3c3c3c", "#4a4a4a" >>

AVAILABLE_FONTS == << "fira-code", "jetbrains-mono", "source-code-pro", "system" >>

DEFAULT_FONT_SIZE_RANGE == << 12, 18 >>

FONT_SIZE_LIMITS == << 8, 32 >>

PADDING == 80

TITLE_BAR_HEIGHT == 50

EXTRA_SPACE == 40

---------------------------------------------------------------------------
(* src/utils/validation.py *)

\* ValidationResult.__init__
ValidationResult == [random_selections |-> << >>, fallback_notifications |-> << >>]

RecordRandom(result, name) ==
    [result EXCEPT !.random_selections = Append(@, name)]

RecordFallback(result, notice) ==
    [result EXCEPT !.fallback_notifications = Append(@, notice)]

\* what a call does: it returns a value or raises, and leaves the result object
Returned(value, result) == [raised |-> FALSE, value |-> value, result |-> result]

Raised(error, result) == [raised |-> TRUE, value |-> PyStr(error), result |-> result]

HexDigits == "0123456789abcdefABCDEF"

\* the colour check with the three-digit form forgotten
_is_valid_hex_color_six_only(color) ==
    /\ StartsWith(color, "#")
    /\ Len(color) = 7
    /\ \A i \in 2..Len(color) :
          \E j \in 1..Len(HexDigits) : CharAt(HexDigits, j) = CharAt(color, i)

_is_valid_hex_color(color) ==
    /\ StartsWith(color, "#")
    /\ Len(color) \in {4, 7}
    /\ \A i \in 2..Len(color) :
          \E j \in 1..Len(HexDigits) : CharAt(HexDigits, j) = CharAt(color, i)

\* pick is the value random.choice draws
validate_theme(theme, result, pick) ==
    IF theme.k = "none"
    THEN Returned(PyStr(pick), RecordRandom(result, "Theme"))
    ELSE IF ~PyIn(theme, AVAILABLE_THEMES)
    THEN Returned(PyStr("dracula"),
                  RecordFallback(result,
                      "Invalid theme '" \o PyRepr(theme) \o "', using 'dracula'"))
    ELSE Returned(theme, result)

validate_frame_style(frame_style, result, pick) ==
    IF frame_style.k = "none"
    THEN Returned(PyStr(pick), RecordRandom(result, "Frame"))
    ELSE IF ~PyIn(frame_style, AVAILABLE_FRAMES)
    THEN Returned(PyStr("macos"),
                  RecordFallback(result,
                      "Invalid frame style '" \o PyRepr(frame_style) \o "', using 'macos'"))
    ELSE Returned(frame_style, result)

\* a value that is not a str has no startswith: _is_valid_hex_color raises
\* AttributeError (TypeError for bytes) before anything is recorded
\* the validator letting every 'neon-' and 'gradient-' text through
validate_background_prefixes_accepted(background, result, pick) ==
    IF background.k = "none"
    THEN Returned(PyStr(pick), RecordRandom(result, "Background"))
    ELSE IF PyIn(background, AVAILABLE_BACKGROUNDS)
    THEN Returned(background, result)
    ELSE IF background.k # "str"
    THEN Raised("AttributeError", result)
    ELSE IF StartsWith(background.v, "neon-") \/ StartsWith(background.v, "gradient-")
    THEN Returned(background, result)
    ELSE IF ~_is_valid_hex_color(background.v)
    THEN Returned(PyStr("purple"),
                  RecordFallback(result,
                      "Invalid background '" \o PyRepr(background) \o "', using 'purple'"))
    ELSE Returned(background, result)

validate_background(background, result, pick) ==
    IF background.k = "none"
    THEN Returned(PyStr(pick), RecordRandom(result, "Background"))
    ELSE IF PyIn(background, AVAILABLE_BACKGROUNDS)
    THEN Returned(background, result)
    ELSE IF background.k # "str"
    THEN Raised("AttributeError", result)
    ELSE IF ~_is_valid_hex_color(background.v)
    THEN Returned(PyStr("purple"),
                  RecordFallback(result,
                      "Invalid background '" \o PyRepr(background) \o "', using 'purple'"))
    ELSE Returned(background, result)

validate_font_family(font_family, result, pick) ==
    IF font_family.k = "none"
    THEN Returned(PyStr(pick), RecordRandom(result, "Font"))
    ELSE IF ~PyIn(font_family, AVAILABLE_FONTS)
    THEN Returned(PyStr("fira-code"),
                  RecordFallback(result,
                      "Invalid font family '" \o PyRepr(font_family) \o "', using 'fira-code'"))
    ELSE Returned(font_family, result)

\* pick is the value random.randint draws
validate_font_size(font_size, result, pick) ==
    IF font_size.k = "none"
    THEN Returned(PyInt(pick), RecordRandom(result, "Font Size"))
    ELSE IF \/ font_size.k \notin {"int", "bool"}
            \/ IntValue(font_size) < FONT_SIZE_LIMITS[1]
            \/ IntValue(font_size) > FONT_SIZE_LIMITS[2]
    THEN Returned(PyInt(14),
                  RecordFallback(result,
                      "Invalid font size '" \o PyRepr(font_size) \o "', using 14"))
    ELSE Returned(font_size, result)

\* the outcomes random.choices([True, False], weights=[w, 1 - w]) can produce,
\* the weight given in percent
WeightedDraws(random_weight) ==
    {b \in BOOLEAN : IF b THEN random_weight > 0 ELSE random_weight < 100}

\* pick is the value random.choices draws
validate_boolean_with_random(value, param_name, default, result, pick) ==
    IF value.k = "none"
    THEN Returned(PyBool(pick),
                  IF pick THEN RecordRandom(result, param_name) ELSE result)
    ELSE IF value.k # "bool"
    THEN Returned(PyBool(default),
                  RecordFallback(result,
                      "Invalid " \o Lower(param_name) \o " value '" \o PyRepr(value)
                          \o "', using " \o PyRepr(PyBool(default))))
    ELSE Returned(value, result)

validate_string_optional(value, param_name) ==
    IF value.k # "none" /\ value.k # "str" THEN None ELSE value

---------------------------------------------------------------------------
(* The validators, called one at a time on a ValidationResult *)

MaxNotes == 1

NotesIn(result) == Len(result.random_selections) + Len(result.fallback_notifications)

\* the values random.choice can draw; nothing is drawn for a value that is given
Draws(arg, domain) == IF arg.k = "none" THEN domain ELSE {CHOOSE d \in domain : TRUE}

ThemeInputs ==
    {None, PyStr("dracula"), PyStr("vs"), PyStr("invalid_theme"), PyStr("Dracula"),
     PyInt(5)}

FrameInputs ==
    {None, PyStr("macos"), PyStr("none"), PyStr("invalid_frame"), PyBool(TRUE)}

BackgroundInputs ==
    {None, PyStr("purple"), PyStr("transparent"), PyStr("neon-purple"),
     PyStr("#1a1a2e"), PyStr("#fff"), PyStr("#FFAA00"), PyStr("#ffff"),
     PyStr("#ggg"), PyStr("fff"), PyStr("invalid_background"), PyInt(5),
     PyBool(FALSE)}

FontInputs == {None, PyStr("fira-code"), PyStr("system"), PyStr("invalid_font"), PyInt(0)}

FontSizeInputs ==
    {None, PyInt(8), PyInt(14), PyInt(32), PyInt(7), PyInt(33), PyInt(999),
     PyFloat("14.0"), PyStr("14"), PyBool(TRUE)}

BoolInputs == {None, PyBool(TRUE), PyBool(FALSE), PyStr("yes"), PyInt(1)}

\* the boolean parameters generate validates: name, default, random weight in percent
BoolParams ==
    { [name |-> "Shadow", default |-> TRUE, weight |-> 50],
      [name |-> "Rounded Corners", default |-> TRUE, weight |-> 50],
      [name |-> "Border Glow", default |-> FALSE, weight |-> 20] }

NoRet ==
    [fn |-> "", arg |-> None, param_name |-> "", default |-> None,
     before |-> ValidationResult, raised |-> FALSE, value |-> None]

Call(fn, arg, param_name, default, out) ==
    /\ NotesIn(validation_result) <= MaxNotes
    /\ validation_result' = out.result
    /\ ret' = [fn |-> fn, arg |-> arg, param_name |-> param_name, default |-> default,
               before |-> validation_result, raised |-> out.raised, value |-> out.value]
    /\ UNCHANGED <<last, prev, calls, geo, shot, tool, sys_path, bg, det>>

NewValidationResult ==
    /\ validation_result' = ValidationResult
    /\ ret' = NoRet
    /\ UNCHANGED <<last, prev, calls, geo, shot, tool, sys_path, bg, det>>

ValidateTheme ==
    \E theme \in ThemeInputs :
      \E pick \in Draws(theme, Range(AVAILABLE_THEMES)) :
        Call("validate_theme", theme, "Theme", None,
             validate_theme(theme, validation_result, pick))

ValidateFrameStyle ==
    \E frame_style \in FrameInputs :
      \E pick \in Draws(frame_style, Range(AVAILABLE_FRAMES)) :
        Call("validate_frame_style", frame_style, "Frame", None,
             validate_frame_style(frame_style, validation_result, pick))

ValidateBackground ==
    \E background \in BackgroundInputs :
      \E pick \in Draws(background, Range(AVAILABLE_BACKGROUNDS)) :
        Call("validate_background", background, "Background", None,
             validate_background(background, validation_result, pick))

ValidateFontFamily ==
    \E font_family \in FontInputs :
      \E pick \in Draws(font_family, Range(AVAILABLE_FONTS)) :
        Call("validate_font_family", font_family, "Font", None,
             validate_font_family(font_family, validation_result, pick))

ValidateFontSize ==
    \E font_size \in FontSizeInputs :
      \E pick \in Draws(font_size, DEFAULT_FONT_SIZE_RANGE[1]..DEFAULT_FONT_SIZE_RANGE[2]) :
        Call("validate_font_size", font_size, "Font Size", None,
             validate_font_size(font_size, validation_result, pick))

ValidateBoolean ==
    \E value \in BoolInputs, p \in BoolParams :
      \E pick \in Draws(value, WeightedDraws(p.weight)) :
        Call("validate_boolean_with_random", value, p.name, PyBool(p.default),
             validate_boolean_with_random(value, p.name, p.default,
                                          validation_result, pick))

NoCall == [done |-> FALSE]

NoGeo == [done |-> FALSE]

NoShot == [done |-> FALSE]

NoTool == [done |-> FALSE]

NoBackground == [done |-> FALSE]

NoDetection == [done |-> FALSE]

Init ==
    /\ validation_result = ValidationResult
    /\ ret = NoRet
    /\ last = NoCall
    /\ prev = NoCall
    /\ calls = 0
    /\ geo = NoGeo
    /\ shot = NoShot
    /\ tool = NoTool
    /\ sys_path = << >>
    /\ bg = NoBackground
    /\ det = NoDetection

NextValidators ==
    \/ NewValidationResult
    \/ ValidateTheme
    \/ ValidateFrameStyle
    \/ ValidateBackground
    \/ ValidateFontFamily
    \/ ValidateFontSize
    \/ ValidateBoolean

SpecValidators == Init /\ [][NextValidators]_vars

---------------------------------------------------------------------------
(* src/utils/validation.py: format_response_text.  The decorative glyphs of the *)
(* text are written in ASCII: an emoji by its name between colons, the bullet   *)
(* as an asterisk and the multiplication sign as an x.                          *)

format_response_text(language, theme, frame_style, background, font_family, font_size, frame_width, frame_height, effects, result) ==
    LET effects_text ==
            IF Len(effects) > 0 THEN " * Effects: " \o Join(effects, ", ") ELSE ""
        random_text ==
            IF Len(result.random_selections) > 0
            THEN " * Random: " \o Join(result.random_selections, ", ") \o " :game_die:"
            ELSE ""
        fallback_text ==
            IF Len(result.fallback_notifications) > 0
            THEN "\n:warning: **Fallbacks Applied**: "
                     \o Join(result.fallback_notifications, "; ")
            ELSE ""
    IN ":art: **Code Screenshot Generated!**\n\n"
         \o "**Language**: " \o Capitalize(language) \o "\n"
         \o "**Theme**: " \o Title(theme) \o "\n"
         \o "**Frame**: " \o Title(frame_style) \o "\n"
         \o "**Background**: " \o Title(background) \o "\n"
         \o "**Font**: " \o Title(font_family) \o " (" \o ToString(font_size) \o "px)\n"
         \o "**Size**: " \o ToString(frame_width) \o "x" \o ToString(frame_height)
         \o "px" \o effects_text \o random_text \o fallback_text \o "\n\n"
         \o "Perfect for sharing! :rocket:"

---------------------------------------------------------------------------
(* src/core/renderer.py *)

QUALITY_SCALE == 3

python_hints ==
    << "def ", "import ", "from ", "class ", "print(", "__init__", "elif ", "try:",
       "except:", "finally:", "lambda ", "with ", "yield" >>

js_hints ==
    << "function ", "const ", "let ", "var ", "console.log", "=>", "return ",
       "typeof", "null", "undefined" >>

java_hints ==
    << "public class", "private ", "public ", "static ", "void main",
       "system.out.println", "string[]" >>

rust_hints == << "fn ", "let mut", "match ", "impl ", "struct ", "enum ", "println!" >>

\* sum(1 for hint in hints if hint in code_lower)
HintScore(hints, code_lower) ==
    Cardinality({i \in DOMAIN hints : Contains(code_lower, hints[i])})

Max(a, b) == IF a >= b THEN a ELSE b

\* the detection with a given language checked against the languages it knows
detect_language_checked(code, language, guess) ==
    IF Truthy(language) /\ language.v \in {"python", "javascript", "java", "rust"}
    THEN language.v
    ELSE "text"

\* the detection with one hint taken for a clear winner
detect_language_one_hint(code, language, guess) ==
    IF ~Truthy(language)
    THEN LET code_lower == Lower(code)
             python_score == HintScore(python_hints, code_lower)
             js_score == HintScore(js_hints, code_lower)
             java_score == HintScore(java_hints, code_lower)
             rust_score == HintScore(rust_hints, code_lower)
             max_score == Max(Max(python_score, js_score), Max(java_score, rust_score))
         IN IF max_score >= 1
            THEN \* max over the dict's keys keeps the first key that attains it
                 IF python_score = max_score THEN "python"
                 ELSE IF js_score = max_score THEN "javascript"
                 ELSE IF java_score = max_score THEN "java"
                 ELSE "rust"
            ELSE IF guess.k = "none" THEN "python"
            ELSE IF guess.v = "tera term macro" THEN "python"
            ELSE IF guess.v = "text" THEN "python"
            ELSE IF guess.v = "common lisp"
                 THEN (IF python_score > 0 THEN "python" ELSE "text")
            ELSE guess.v
    ELSE language.v

\* guess is the lower-cased name of the lexer guess_lexer returns, or None when
\* the guess raises
detect_language(code, language, guess) ==
    IF ~Truthy(language)
    THEN LET code_lower == Lower(code)
             python_score == HintScore(python_hints, code_lower)
             js_score == HintScore(js_hints, code_lower)
             java_score == HintScore(java_hints, code_lower)
             rust_score == HintScore(rust_hints, code_lower)
             max_score == Max(Max(python_score, js_score), Max(java_score, rust_score))
         IN IF max_score >= 2
            THEN \* max over the dict's keys keeps the first key that attains it
                 IF python_score = max_score THEN "python"
                 ELSE IF js_score = max_score THEN "javascript"
                 ELSE IF java_score = max_score THEN "java"
                 ELSE "rust"
            ELSE IF guess.k = "none" THEN "python"
            ELSE IF guess.v = "tera term macro" THEN "python"
            ELSE IF guess.v = "text" THEN "python"
            ELSE IF guess.v = "common lisp"
                 THEN (IF python_score > 0 THEN "python" ELSE "text")
            ELSE guess.v
    ELSE language.v

MAX_LINES_FOR_IMAGE == 150

MAX_CHARS_FOR_IMAGE == 15000

TruncationNotice == "\n\n... (content truncated for image generation)"

\* the positions of the line breaks of a text
Newlines(code) == {i \in 1..Len(code) : CharAt(code, i) = "\n"}

\* code.count('\n') + 1
LineCount(code) == Cardinality(Newlines(code)) + 1

\* the least member of a non-empty set of positions
First(positions) == CHOOSE i \in positions : \A j \in positions : i <= j

\* '\n'.join(code.split('\n')[:n]), for a text of more than n lines
FirstLines(code, n) ==
    Only({ SubSeq(code, 1,
                  (CHOOSE i \in breaks : Cardinality({j \in breaks : j < i}) = n - 1)
                     - 1) :
           breaks \in {Newlines(code)} })

\* code.rfind('\n'), 0-based, -1 when there is none
LastNewline(code) ==
    Only({ IF breaks = {} THEN -1
           ELSE (CHOOSE i \in breaks : \A j \in breaks : j <= i) - 1 :
           breaks \in {Newlines(code)} })

\* the truncation taken at the caps instead of beyond them
TruncateForImage_at_cap(code) ==
    IF LineCount(code) >= MAX_LINES_FOR_IMAGE \/ Len(code) >= MAX_CHARS_FOR_IMAGE
    THEN LET byLines == IF LineCount(code) > MAX_LINES_FOR_IMAGE
                        THEN FirstLines(code, MAX_LINES_FOR_IMAGE)
                        ELSE code
             cut == SubSeq(byLines, 1, MAX_CHARS_FOR_IMAGE)
             last_newline == LastNewline(cut)
             byChars == IF Len(byLines) > MAX_CHARS_FOR_IMAGE
                        THEN (IF last_newline * 10 > Len(cut) * 8
                              THEN SubSeq(cut, 1, last_newline)
                              ELSE cut)
                        ELSE byLines
         IN byChars \o TruncationNotice
    ELSE code

\* the renderer without its safety truncation
TruncateForImage_skipped(code) == code

\* the truncation with the cut always taken back to the last line break
TruncateForImage_always_trimmed(code) ==
    IF LineCount(code) > MAX_LINES_FOR_IMAGE \/ Len(code) > MAX_CHARS_FOR_IMAGE
    THEN LET byLines == IF LineCount(code) > MAX_LINES_FOR_IMAGE
                        THEN FirstLines(code, MAX_LINES_FOR_IMAGE)
                        ELSE code
             cut == SubSeq(byLines, 1, MAX_CHARS_FOR_IMAGE)
             last_newline == LastNewline(cut)
             byChars == IF Len(byLines) > MAX_CHARS_FOR_IMAGE
                        THEN (IF last_newline > 0 THEN SubSeq(cut, 1, last_newline) ELSE cut)
                        ELSE byLines
         IN byChars \o TruncationNotice
    ELSE code

\* the safety truncation create_code_image applies before highlighting
TruncateForImage(code) ==
    IF LineCount(code) > MAX_LINES_FOR_IMAGE \/ Len(code) > MAX_CHARS_FOR_IMAGE
    THEN LET byLines == IF LineCount(code) > MAX_LINES_FOR_IMAGE
                        THEN FirstLines(code, MAX_LINES_FOR_IMAGE)
                        ELSE code
             cut == SubSeq(byLines, 1, MAX_CHARS_FOR_IMAGE)
             last_newline == LastNewline(cut)
             byChars == IF Len(byLines) > MAX_CHARS_FOR_IMAGE
                        THEN (IF last_newline * 10 > Len(cut) * 8
                              THEN SubSeq(cut, 1, last_newline)
                              ELSE cut)
                        ELSE byLines
         IN byChars \o TruncationNotice
    ELSE code

\* the quality scale and the logical font size chosen for a text
QualityTier(code, font_size) ==
    IF Len(code) > 20000 \/ LineCount(code) > 200
    THEN [quality_scale |-> 1, font_size |-> Max(8, font_size - 4)]
    ELSE IF Len(code) > 10000 \/ LineCount(code) > 100
    THEN [quality_scale |-> 2, font_size |-> Max(10, font_size - 2)]
    ELSE [quality_scale |-> QUALITY_SCALE, font_size |-> font_size]

\* the longest line of a text, in characters: each line runs from one break
\* (or the start) to the next break (or the end)
MaxLineLength(code) ==
    Only({ LET ends == breaks \cup {Len(code) + 1}
               lengths == {First({e \in ends : e > p}) - p - 1 : p \in breaks \cup {0}}
           IN CHOOSE m \in lengths : \A l \in lengths : l <= m :
           breaks \in {Newlines(code)} })

\* The size of the bitmap the highlighter's image formatter draws: a grid of
\* character cells inside image_pad, with a line-number gutter.  The cell metrics
\* are the formatter's; a monospaced cell is taken as 3/5 of the pixel size wide
\* and the pixel size plus the formatter's line pad (2) high.  An int given for
\* line_numbers is read by its truth value.
HighlightedSize(code, font_px, line_numbers, image_pad, line_number_pad) ==
    LET fontw == (font_px * 3) \div 5
        gutter == IF Truthy(line_numbers) THEN fontw * 4 + line_number_pad * 2 ELSE 0
    IN [width |-> MaxLineLength(code) * fontw + gutter + 2 * image_pad,
        height |-> LineCount(code) * (font_px + 2) + 2 * image_pad]

create_code_image(code, language, theme, font_size, line_numbers, font_path) ==
    LET text == TruncateForImage(code)
        tier == QualityTier(text, font_size)
        quality_scale == tier.quality_scale
        image_pad == (IF LineCount(text) > 150 THEN 10 ELSE 25) * quality_scale
        line_number_pad == (IF LineCount(text) > 150 THEN 8 ELSE 15) * quality_scale
        high == HighlightedSize(text, tier.font_size * quality_scale, line_numbers,
                                image_pad, line_number_pad)
    IN [width |-> IF quality_scale > 1 THEN high.width \div quality_scale ELSE high.width,
        height |-> IF quality_scale > 1 THEN high.height \div quality_scale
                   ELSE high.height,
        mode |-> "RGB",
        text |-> text, language |-> language, theme |-> theme,
        font_size |-> tier.font_size, quality_scale |-> quality_scale,
        line_numbers |-> line_numbers, font_path |-> font_path]

---------------------------------------------------------------------------
(* src/effects, src/frames, src/utils/backgrounds.py: what each stage does to *)
(* the canvas (its size and colour mode) and what it draws                    *)

BACKGROUND_COLORS ==
    << "purple", "cyan", "orange", "pink", "green", "blue", "red", "yellow",
       "magenta", "teal", "lime", "indigo", "violet", "coral", "turquoise" >>

Canvas(width, height, mode, drawn) ==
    [width |-> width, height |-> height, mode |-> mode, drawn |-> drawn]

Draw(img, what) == [img EXCEPT !.drawn = Append(@, what)]

ToRGBA(img) == [img EXCEPT !.mode = "RGBA"]

\* background.split("-")[1], for a text that has a dash
SplitDash(background) ==
    LET dashes == {i \in 1..Len(background) : CharAt(background, i) = "-"}
        first == CHOOSE i \in dashes : \A j \in dashes : i <= j
        later == {i \in dashes : i > first}
        stop == IF later = {} THEN Len(background) + 1
                ELSE CHOOSE i \in later : \A j \in later : i <= j
    IN SubSeq(background, first + 1, stop - 1)

\* the '#' colour texts Image.new takes: #rgb, #rgba, #rrggbb and #rrggbbaa
ColorLiteral(color) ==
    /\ StartsWith(color, "#")
    /\ Len(color) \in {4, 5, 7, 9}
    /\ \A i \in 2..Len(color) :
          \E j \in 1..Len(HexDigits) : CharAt(HexDigits, j) = CharAt(color, i)

\* Image.new raised ValueError (unknown color specifier): there is no canvas
ValueError == [width |-> 0, height |-> 0, mode |-> "ValueError", drawn |-> << >>]

\* the colours of the BACKGROUND_COLORS table, in the order of its names
BACKGROUND_COLOR_VALUES ==
    << "#8B5CF6", "#06B6D4", "#F97316", "#EC4899", "#10B981", "#3B82F6", "#EF4444",
       "#F59E0B", "#D946EF", "#14B8A6", "#84CC16", "#6366F1", "#8B5CF6", "#FF6B6B",
       "#17A2B8" >>

\* BACKGROUND_COLORS.get(color_name, color_name)
BackgroundColor(color_name) ==
    IF color_name \in Range(BACKGROUND_COLORS)
    THEN BACKGROUND_COLOR_VALUES[CHOOSE i \in DOMAIN BACKGROUND_COLORS : BACKGROUND_COLORS[i] = color_name]
    ELSE color_name

create_solid_background(width, height, color_name) ==
    Canvas(width, height, "RGB", << "solid " \o BackgroundColor(color_name) >>)

\* a black canvas with a grid of lines every 50 pixels, blurred
create_neon_background(width, height) == Canvas(width, height, "RGB", << "neon grid" >>)

\* the branch of create_frame_background a specifier takes
BackgroundBranch(background) ==
    IF background = "transparent" THEN "transparent"
    ELSE IF StartsWith(background, "gradient-") THEN "gradient-"
    ELSE IF StartsWith(background, "neon-") THEN "neon-"
    ELSE IF background \in Range(BACKGROUND_COLORS) THEN "named"
    ELSE "else"

\* the builder without its two prefix branches
create_frame_background_no_prefixes(frame_width, frame_height, background) ==
    IF background = "transparent"
    THEN Canvas(frame_width, frame_height, "RGBA", << "transparent" >>)
    ELSE IF background \in Range(BACKGROUND_COLORS)
    THEN create_solid_background(frame_width, frame_height, background)
    ELSE Canvas(frame_width, frame_height, "RGB",
                << "solid " \o (IF StartsWith(background, "#") THEN background
                                ELSE "#1a1a2e") >>)

create_frame_background(frame_width, frame_height, background) ==
    CASE BackgroundBranch(background) = "transparent" ->
            Canvas(frame_width, frame_height, "RGBA", << "transparent" >>)
      [] BackgroundBranch(background) = "gradient-" ->
            IF SplitDash(background) = "purple"
            THEN Canvas(frame_width, frame_height, "RGB", << "solid #8B5CF6" >>)
            ELSE create_solid_background(frame_width, frame_height, "purple")
      [] BackgroundBranch(background) = "neon-" ->
            create_neon_background(frame_width, frame_height)
      [] BackgroundBranch(background) = "named" ->
            create_solid_background(frame_width, frame_height, background)
      [] OTHER ->
            IF StartsWith(background, "#") /\ ~ColorLiteral(background)
            THEN ValueError
            ELSE Canvas(frame_width, frame_height, "RGB",
                        << "solid " \o (IF StartsWith(background, "#") THEN background
                                        ELSE "#1a1a2e") >>)

apply_rounded_corners(code_img) == [code_img EXCEPT !.mode = "RGBA"]

\* draw_macos_frame and draw_windows_frame draw on the canvas in place
draw_frame(img, frame_style, window_title, language) ==
    Draw(img, frame_style \o " title bar: "
                \o (IF Truthy(window_title) THEN window_title.v
                    ELSE Capitalize(language) \o " Code"))

\* Image.alpha_composite: im2 over im1, which must be of the same size
alpha_composite(im1, im2) ==
    IF im1.width = im2.width /\ im1.height = im2.height
    THEN [im1 EXCEPT !.drawn = @ \o im2.drawn]
    ELSE ValueError

\* the shadow layers are as large as the canvas they are composited on
apply_shadow_effect(frame_img, code_img, code_x, code_y, rounded_corners) ==
    alpha_composite(ToRGBA(frame_img),
                    Canvas(frame_img.width, frame_img.height, "RGBA",
                           << IF rounded_corners THEN "rounded shadow" ELSE "shadow" >>))

paste_code_image(frame_img, code_img, code_x, code_y, rounded_corners) ==
    Draw(frame_img, IF rounded_corners THEN "code image, masked" ELSE "code image")

apply_reflection_effect(frame_img, code_img, code_x, code_y) ==
    Draw(ToRGBA(frame_img), "reflection")

\* the glow with its layer made ten pixels smaller than the frame
apply_border_glow_inset(frame_img, frame_width, frame_height) ==
    alpha_composite(ToRGBA(frame_img),
                    Canvas(frame_width - 10, frame_height - 10, "RGBA", << "glow" >>))

\* the glow layer is made frame_width x frame_height and composited on the canvas
apply_border_glow(frame_img, frame_width, frame_height) ==
    alpha_composite(ToRGBA(frame_img),
                    Canvas(frame_width, frame_height, "RGBA", << "glow" >>))

add_watermark(frame_img, watermark_text, frame_width, frame_height) ==
    Draw(frame_img, "watermark: " \o watermark_text)

\* the canvas encoded as it is
Flatten_skipped(frame_img, background) == frame_img

\* the flattening before the PNG is encoded
Flatten(frame_img, background) ==
    IF background = "transparent" THEN frame_img
    ELSE IF frame_img.mode = "RGBA" THEN [frame_img EXCEPT !.mode = "RGB"]
    ELSE frame_img

---------------------------------------------------------------------------
(* src/core/generator.py *)

\* fonts.get_font_path(family, "regular"); the bundled font files are taken to
\* be installed
get_font_path(family) ==
    IF family \in {"fira-code", "jetbrains-mono", "source-code-pro"}
    THEN PyStr("fonts/" \o family \o "/regular")
    ELSE None

\* the geometry with a title bar only under the frames that draw one
FrameGeometry_bar_for_chrome(code_width, code_height, frame_style, shadow, reflection) ==
    LET title_bar_height == IF frame_style \in {"macos", "windows"}
                            THEN TITLE_BAR_HEIGHT ELSE 0
        extra_space == IF shadow \/ reflection THEN EXTRA_SPACE ELSE 20
    IN [title_bar_height |-> title_bar_height,
        extra_space |-> extra_space,
        frame_width |-> code_width + (PADDING * 2) + extra_space,
        frame_height |-> code_height + (PADDING * 2) + title_bar_height + extra_space
                           + (IF reflection THEN code_height \div 2 ELSE 0),
        code_x |-> PADDING + (extra_space \div 2),
        code_y |-> title_bar_height + PADDING]

\* the geometry if the reflection did not widen the margin
FrameGeometry_margin_by_shadow(code_width, code_height, frame_style, shadow, reflection) ==
    LET title_bar_height == IF frame_style # "none" THEN TITLE_BAR_HEIGHT ELSE 0
        extra_space == IF shadow THEN EXTRA_SPACE ELSE 20
    IN [title_bar_height |-> title_bar_height,
        extra_space |-> extra_space,
        frame_width |-> code_width + (PADDING * 2) + extra_space,
        frame_height |-> code_height + (PADDING * 2) + title_bar_height + extra_space
                           + (IF reflection THEN code_height \div 2 ELSE 0),
        code_x |-> PADDING + (extra_space \div 2),
        code_y |-> title_bar_height + PADDING]

\* the frame's size and the code image's place in it; shadow and reflection are
\* the truth values generate tests
FrameGeometry(code_width, code_height, frame_style, shadow, reflection) ==
    LET title_bar_height == IF frame_style # "none" THEN TITLE_BAR_HEIGHT ELSE 0
        extra_space == IF shadow \/ reflection THEN EXTRA_SPACE ELSE 20
    IN [title_bar_height |-> title_bar_height,
        extra_space |-> extra_space,
        frame_width |-> code_width + (PADDING * 2) + extra_space,
        frame_height |-> code_height + (PADDING * 2) + title_bar_height + extra_space
                           + (IF reflection THEN code_height \div 2 ELSE 0),
        code_x |-> PADDING + (extra_space \div 2),
        code_y |-> title_bar_height + PADDING]

When(cond, stage) == IF cond THEN << stage >> ELSE << >>

\* the stages with the shadow drawn over the pasted code image
Stages_shadow_after_paste(rounded_corners, chrome, shadow, reflection, border_glow, watermark) ==
    << "validate", "detect_language", "render" >>
        \o When(rounded_corners, "round_corners")
        \o << "geometry", "background" >>
        \o When(chrome, "chrome")
        \o << "paste" >>
        \o When(shadow, "shadow")
        \o When(reflection, "reflection")
        \o When(border_glow, "glow")
        \o When(watermark, "watermark")
        \o << "encode", "summary" >>

\* the stages of one generate call, in the order the code runs them
Stages(rounded_corners, chrome, shadow, reflection, border_glow, watermark) ==
    << "validate", "detect_language", "render" >>
        \o When(rounded_corners, "round_corners")
        \o << "geometry", "background" >>
        \o When(chrome, "chrome")
        \o When(shadow, "shadow")
        \o << "paste" >>
        \o When(reflection, "reflection")
        \o When(border_glow, "glow")
        \o When(watermark, "watermark")
        \o << "encode", "summary" >>

\* the effect names the summary lists
Effects(shadow, reflection, border_glow, rounded_corners) ==
    When(shadow, "Shadow") \o When(reflection, "Reflection")
        \o When(border_glow, "Glow") \o When(rounded_corners, "Rounded")

NoImage == [width |-> 0, height |-> 0, mode |-> "", drawn |-> << >>]

NoGeometry ==
    [title_bar_height |-> 0, extra_space |-> 0, frame_width |-> 0,
     frame_height |-> 0, code_x |-> 0, code_y |-> 0]

\* a generate call that raised in validation, the result object as it then is
GenerateRaised(result) ==
    [raised |-> TRUE, validation_result |-> result, stages |-> << "validate" >>,
     theme |-> None, frame_style |-> None, background |-> None,
     font_family |-> None, font_size |-> None, shadow |-> None,
     rounded_corners |-> None, border_glow |-> None, reflection |-> None,
     line_numbers |-> None, language |-> "", rendered_font_size |-> 0,
     code_width |-> 0, code_height |-> 0, geometry |-> NoGeometry,
     effects |-> << >>, response_text |-> "", img |-> NoImage]

\* generate, lines 63-80: the validators in the order they are called, each on
\* the result object the one before left
ValidateAll(result, req, d) ==
    LET v1 == validate_theme(req.theme, result, d.theme)
        v2 == validate_frame_style(req.frame_style, v1.result, d.frame_style)
        v3 == validate_background(req.background, v2.result, d.background)
        v4 == validate_font_family(req.font_family, v3.result, d.font_family)
        v5 == validate_font_size(req.font_size, v4.result, d.font_size)
        v6 == validate_boolean_with_random(req.shadow, "Shadow", TRUE,
                                           v5.result, d.shadow)
        v7 == validate_boolean_with_random(req.rounded_corners, "Rounded Corners",
                                           TRUE, v6.result, d.rounded_corners)
        v8 == validate_boolean_with_random(req.border_glow, "Border Glow", FALSE,
                                           v7.result, d.border_glow)
    IN IF v3.raised
       THEN [raised |-> TRUE, result |-> v3.result]
       ELSE [raised |-> FALSE, result |-> v8.result,
             theme |-> v1.value, frame_style |-> v2.value, background |-> v3.value,
             font_family |-> v4.value, font_size |-> v5.value, shadow |-> v6.value,
             rounded_corners |-> v7.value, border_glow |-> v8.value,
             window_title |-> validate_string_optional(req.window_title,
                                                       "Window Title"),
             watermark |-> validate_string_optional(req.watermark, "Watermark")]

\* generate, lines 86-113: the language, the font path and the code image
RenderCode(req, d, v) ==
    LET language == detect_language(req.code, req.language, d.guess)
        font_path == IF v.font_family.v # "system"
                     THEN get_font_path(v.font_family.v)
                     ELSE None
    IN Only({ [language |-> language,
               rendered |-> rendered,
               code_img |-> IF v.rounded_corners.v
                            THEN apply_rounded_corners(rendered)
                            ELSE rendered] :
              rendered \in {create_code_image(req.code, language, v.theme.v,
                                v.font_size.v, req.line_numbers, font_path)} })

\* generate, lines 127-192: the canvas from the background to the flattening
Compose(v, c, g, reflection) ==
    LET i1 == create_frame_background(g.frame_width, g.frame_height, v.background.v)
        i2 == IF v.frame_style.v \in {"macos", "windows"}
              THEN draw_frame(i1, v.frame_style.v, v.window_title, c.language)
              ELSE i1
        i3 == IF v.shadow.v /\ v.frame_style.v # "none"
              THEN apply_shadow_effect(i2, c.code_img, g.code_x, g.code_y,
                                       v.rounded_corners.v)
              ELSE i2
        i4 == paste_code_image(i3, c.code_img, g.code_x, g.code_y,
                               v.rounded_corners.v)
        i5 == IF reflection
              THEN apply_reflection_effect(i4, c.code_img, g.code_x, g.code_y)
              ELSE i4
        i6 == IF v.border_glow.v
              THEN apply_border_glow(i5, g.frame_width, g.frame_height)
              ELSE i5
        i7 == IF Truthy(v.watermark)
              THEN add_watermark(i6, v.watermark.v, g.frame_width, g.frame_height)
              ELSE i6
    IN Flatten(i7, v.background.v)

\* generate, from the geometry on, for the validated options v and the code image c
Finish(req, v, c, g) ==
    LET reflection == Truthy(req.reflection)
        effects == Effects(v.shadow.v, reflection, v.border_glow.v,
                           v.rounded_corners.v)
        canvas == Compose(v, c, g, reflection)
    IN [raised |-> FALSE,
        validation_result |-> v.result,
        stages |-> Stages(v.rounded_corners.v,
                          v.frame_style.v \in {"macos", "windows"},
                          v.shadow.v /\ v.frame_style.v # "none",
                          reflection, v.border_glow.v, Truthy(v.watermark)),
        theme |-> v.theme, frame_style |-> v.frame_style,
        background |-> v.background, font_family |-> v.font_family,
        font_size |-> v.font_size, shadow |-> v.shadow,
        rounded_corners |-> v.rounded_corners, border_glow |-> v.border_glow,
        reflection |-> req.reflection, line_numbers |-> req.line_numbers,
        language |-> c.language,
        rendered_font_size |-> c.rendered.font_size,
        code_width |-> c.code_img.width, code_height |-> c.code_img.height,
        geometry |-> g,
        effects |-> effects,
        response_text |-> format_response_text(c.language, v.theme.v,
                              v.frame_style.v, v.background.v, v.font_family.v,
                              v.font_size.v, g.frame_width, g.frame_height,
                              effects, v.result),
        img |-> [canvas EXCEPT !.drawn =
                    << c.rendered.text, c.rendered.language, c.rendered.theme,
                       ToString(c.rendered.font_size),
                       PyRepr(c.rendered.line_numbers),
                       PyRepr(c.rendered.font_path) >> \o @]]

\* CodeshotGenerator.generate on a generator whose validation_result is result;
\* d holds the values the random draws and the lexer guess produce
generate(result, req, d) ==
    Only({ IF v.raised THEN GenerateRaised(v.result)
           ELSE Only({ Only({ Finish(req, v, c, g) :
                              g \in {FrameGeometry(c.code_img.width,
                                         c.code_img.height, v.frame_style.v,
                                         v.shadow.v, Truthy(req.reflection))} }) :
                       c \in {RenderCode(req, d, v)} }) :
           v \in {ValidateAll(result, req, d)} })

---------------------------------------------------------------------------
(* Requests to one CodeshotGenerator, and the frame geometry on its own *)

MaxCalls == 2

MaxCodeWidth == 3

MaxCodeHeight == 12

BaseRequest ==
    [code |-> "print('hi')", language |-> PyStr("python"),
     theme |-> PyStr("dracula"), frame_style |-> PyStr("macos"),
     background |-> PyStr("purple"), font_family |-> PyStr("fira-code"),
     font_size |-> PyInt(14), line_numbers |-> PyBool(TRUE),
     window_title |-> None, shadow |-> PyBool(TRUE),
     reflection |-> PyBool(FALSE), rounded_corners |-> PyBool(TRUE),
     watermark |-> None, border_glow |-> PyBool(FALSE)]

\* the base request with one option changed: left unset, valid, invalid, or of
\* the wrong type
StyleRequests ==
    {BaseRequest}
    \cup {[BaseRequest EXCEPT !.theme = x] :
            x \in {None, PyStr("vs"), PyStr("invalid_theme"), PyInt(5)}}
    \cup {[BaseRequest EXCEPT !.frame_style = x] :
            x \in {None, PyStr("none"), PyStr("minimal"), PyStr("invalid_frame")}}
    \cup {[BaseRequest EXCEPT !.background = x] :
            x \in {None, PyStr("transparent"), PyStr("#fff"),
                   PyStr("invalid_background"), PyInt(5)}}
    \cup {[BaseRequest EXCEPT !.font_family = x] :
            x \in {None, PyStr("system"), PyStr("invalid_font")}}
    \cup {[BaseRequest EXCEPT !.font_size = x] :
            x \in {None, PyInt(32), PyInt(999), PyFloat("14.0")}}
    \cup {[BaseRequest EXCEPT !.shadow = x] :
            x \in {None, PyBool(FALSE), PyStr("yes")}}
    \cup {[BaseRequest EXCEPT !.rounded_corners = x] :
            x \in {None, PyBool(FALSE), PyInt(0)}}
    \cup {[BaseRequest EXCEPT !.border_glow = x] :
            x \in {None, PyBool(TRUE), PyStr("no")}}
    \cup {[BaseRequest EXCEPT !.reflection = x] :
            x \in {PyBool(TRUE), PyStr("yes"), PyInt(0)}}
    \cup {[BaseRequest EXCEPT !.line_numbers = x] : x \in {PyBool(FALSE), PyInt(0)}}
    \cup {[BaseRequest EXCEPT !.watermark = x] : x \in {PyStr("@me"), PyInt(7)}}
    \cup {[BaseRequest EXCEPT !.window_title = PyStr("demo.py")]}
    \cup {[BaseRequest EXCEPT !.language = x, !.code = c] :
            x \in {None, PyStr("JavaScript"), PyStr("klingon")},
            c \in {"x = 1", "def f(x):\n    return x\nprint(f(1))"}}
    \cup {[BaseRequest EXCEPT !.shadow = None, !.rounded_corners = None,
                              !.border_glow = None]}

\* fully specified requests over every combination of the effects
EffectRequests ==
    {[BaseRequest EXCEPT !.frame_style = PyStr(f), !.background = PyStr(b),
                         !.shadow = PyBool(sh), !.reflection = PyBool(re),
                         !.rounded_corners = PyBool(ro), !.border_glow = PyBool(gl),
                         !.watermark = wm] :
        f \in Range(AVAILABLE_FRAMES), b \in {"purple", "transparent"},
        sh \in BOOLEAN, re \in BOOLEAN, ro \in BOOLEAN, gl \in BOOLEAN,
        wm \in {None, PyStr("@me")}}

\* what guess_lexer can answer: a lexer's lower-cased name, or an exception
LexerGuesses == {None, PyStr("python"), PyStr("text only"), PyStr("common lisp")}

\* the random draws and the lexer guess one call can meet
DrawsFor(req) ==
    [theme : Draws(req.theme, Range(AVAILABLE_THEMES)),
     frame_style : Draws(req.frame_style, Range(AVAILABLE_FRAMES)),
     background : Draws(req.background, Range(AVAILABLE_BACKGROUNDS)),
     font_family : Draws(req.font_family, Range(AVAILABLE_FONTS)),
     font_size : Draws(req.font_size,
                       DEFAULT_FONT_SIZE_RANGE[1]..DEFAULT_FONT_SIZE_RANGE[2]),
     shadow : Draws(req.shadow, WeightedDraws(50)),
     rounded_corners : Draws(req.rounded_corners, WeightedDraws(50)),
     border_glow : Draws(req.border_glow, WeightedDraws(20)),
     guess : IF Truthy(req.language) THEN {None} ELSE LexerGuesses]

MaxSysPath == 5

\* load_font, lines 11-12: every call puts the repository's directory in front of
\* the interpreter's module search path
load_font(path) == << "codeshot" >> \o path

\* the load_font calls of one generate call: one for the macos title, four in
\* the windows frame, one for the watermark
FontLoads(out) ==
    IF out.raised THEN 0
    ELSE (CASE out.frame_style.v = "macos" -> 1
            [] out.frame_style.v = "windows" -> 4
            [] OTHER -> 0)
         + (IF \E i \in 1..Len(out.stages) : out.stages[i] = "watermark" THEN 1 ELSE 0)

\* the module search path after n calls of load_font
RECURSIVE LoadFonts(_, _)
LoadFonts(path, n) == IF n = 0 THEN path ELSE LoadFonts(load_font(path), n - 1)

\* CodeshotGenerator.__init__: a new generator, on which no call has been made
NewGenerator ==
    /\ validation_result' = ValidationResult
    /\ calls' = 0
    /\ last' = NoCall
    /\ prev' = NoCall
    /\ UNCHANGED <<ret, geo, shot, tool, sys_path, bg, det>>

\* one generate call on the current generator.  last is the latest call on it,
\* and prev the call before when that call had the same arguments.
Generate(req) ==
    /\ calls < MaxCalls
    /\ \E d \in DrawsFor(req) :
         \E out \in {generate(validation_result, req, d)} :
            /\ Len(sys_path) + FontLoads(out) <= MaxSysPath
            /\ validation_result' = out.validation_result
            /\ sys_path' = LoadFonts(sys_path, FontLoads(out))
            /\ last' = [done |-> TRUE, req |-> req, start |-> validation_result,
                        path |-> sys_path, out |-> out]
    /\ prev' = IF last.done /\ last.req = req THEN last ELSE NoCall
    /\ calls' = calls + 1
    /\ UNCHANGED <<ret, geo, shot, tool, bg, det>>

\* the requests a generator meets: any of the given ones on its first call; on
\* its second the same request again, and on every later call one of a few others
RequestsNow(first) ==
    IF ~last.done THEN first
    ELSE (IF calls = 1 THEN {last.req} ELSE {})
         \cup {BaseRequest,
               [BaseRequest EXCEPT !.font_size = PyInt(999)],
               [BaseRequest EXCEPT !.shadow = None]}

Next ==
    \/ NewGenerator
    \/ \E req \in RequestsNow(StyleRequests) : Generate(req)

Spec == Init /\ [][Next]_vars

NextPipeline ==
    \/ NewGenerator
    \/ \E req \in RequestsNow(EffectRequests) : Generate(req)

SpecPipeline == Init /\ [][NextPipeline]_vars

\* n copies of s, one after the other
RECURSIVE Repeat(_, _)
Repeat(s, n) ==
    IF n = 0 THEN ""
    ELSE IF n % 2 = 1 THEN s \o Repeat(s, n - 1)
    ELSE Only({ h \o h : h \in {Repeat(s, n \div 2)} })

\* a text of n lines, each of them line
LinesOf(line, n) == line \o Repeat("\n" \o line, n - 1)

\* code texts around the caps of the truncation and the thresholds of the quality
\* tiers: short lines in growing number, one line of growing length, and two
\* long lines with the break before and after four fifths of the character cap
LargeCodes ==
    {LinesOf("x", n) : n \in {1, 50, 100, 101, 150, 151, 200, 201, 250}}
    \cup {Repeat("a", n) : n \in {10000, 10001, 15000, 15001, 20000, 20001}}
    \cup {Repeat("a", 14000) \o "\n" \o Repeat("b", 1500),
          Repeat("a", 5000) \o "\n" \o Repeat("b", 11000)}

\* one create_code_image call, as generate makes it, on a text of any size
CreateCodeImage ==
    /\ ~shot.done
    /\ \E code \in LargeCodes, font_size \in FONT_SIZE_LIMITS[1]..FONT_SIZE_LIMITS[2] :
         \E img \in {create_code_image(code, "python", "dracula", font_size,
                                       PyBool(TRUE), get_font_path("fira-code"))} :
            shot' = [done |-> TRUE, code |-> code, font_size |-> font_size,
                     img |-> img]
    /\ UNCHANGED <<validation_result, ret, last, prev, calls, geo, tool, sys_path, bg, det>>

SpecRenderer == Init /\ [][CreateCodeImage]_vars

\* the frame geometry of one code image, without and with the reflection
\* heights of code images of one line and of some twenty lines and more
TallCodeHeights == {64, 210, 211, 343, 1200}

MeasureFrame ==
    /\ \E code_width \in 1..MaxCodeWidth, code_height \in (1..MaxCodeHeight) \cup TallCodeHeights,
          frame_style \in Range(AVAILABLE_FRAMES), shadow \in BOOLEAN :
         geo' = [done |-> TRUE, code_width |-> code_width,
                 code_height |-> code_height, frame_style |-> frame_style,
                 shadow |-> shadow,
                 plain |-> FrameGeometry(code_width, code_height, frame_style,
                                         shadow, FALSE),
                 reflected |-> FrameGeometry(code_width, code_height, frame_style,
                                             shadow, TRUE)]
    /\ UNCHANGED <<validation_result, ret, last, prev, calls, shot, tool, sys_path, bg, det>>

SpecGeometry == Init /\ [][MeasureFrame]_vars

---------------------------------------------------------------------------
(* src/core/renderer.py: detect_language on its own *)

\* texts with no hint, one hint, a clear winner, and ties between the languages
HintedCodes ==
    {"", "x = 1", "def f", "DEF F(X):\n    IMPORT OS",
     "def f(x):\n    return x\nprint(f(1))",
     "import os\nfrom a import b\nconst x = 1; let y = 2",
     "const x = 1; let y = 2; public static int z",
     "private static fn x() struct ",
     "fn main() { let mut x = 1; }",
     "function f() { const a = null; }\ndef g(): import os",
     "public class A { public static void main(String[] a) { System.out.println(1); } }",
     "println!", "return null"}

DetectLanguage ==
    /\ ~det.done
    /\ \E code \in HintedCodes, language \in {None, PyStr(""), PyStr("rust")}, guess \in LexerGuesses \cup {PyStr("scheme")} :
         det' = [done |-> TRUE, code |-> code, language |-> language, guess |-> guess,
                 detected |-> detect_language(code, language, guess)]
    /\ UNCHANGED <<validation_result, ret, last, prev, calls, geo, shot, tool, sys_path, bg>>

SpecDetection == Init /\ [][DetectLanguage]_vars

---------------------------------------------------------------------------
(* src/utils/backgrounds.py on its own, and behind validate_background *)

BackgroundSpecifiers ==
    Range(AVAILABLE_BACKGROUNDS)
    \cup {"neon-", "neon-green", "neon", "gradient-", "gradient-purple", "gradient-blue",
          "gradient-sunset-glow", "gradient", "#fff", "#FFAA00", "#ffff", "#ggg",
          "#12345", "fff", "invalid_background", "", "Purple", "grey", "transparent "}

CanvasWidths == {1, 240, 1280}

CanvasHeights == {1, 150, 720}

\* create_frame_background on a specifier of any kind
CreateFrameBackground ==
    /\ ~bg.done
    /\ \E background \in BackgroundSpecifiers, width \in CanvasWidths, height \in CanvasHeights :
         bg' = [done |-> TRUE, validated |-> FALSE, arg |-> PyStr(background),
                background |-> background, width |-> width, height |-> height,
                img |-> create_frame_background(width, height, background)]
    /\ UNCHANGED <<validation_result, ret, last, prev, calls, geo, shot, tool, sys_path, det>>

\* create_frame_background on what validate_background returned, as in generate
CreateValidatedBackground ==
    /\ ~bg.done
    /\ \E arg \in BackgroundInputs \cup {PyStr(b) : b \in BackgroundSpecifiers}, pick \in Range(AVAILABLE_BACKGROUNDS), width \in CanvasWidths, height \in CanvasHeights :
         \E v \in {validate_background(arg, ValidationResult, pick)} :
            /\ ~v.raised
            /\ bg' = [done |-> TRUE, validated |-> TRUE, arg |-> arg,
                      background |-> v.value.v, width |-> width, height |-> height,
                      img |-> create_frame_background(width, height, v.value.v)]
    /\ UNCHANGED <<validation_result, ret, last, prev, calls, geo, shot, tool, sys_path, det>>

NextBackground ==
    \/ CreateFrameBackground
    \/ CreateValidatedBackground

SpecBackground == Init /\ [][NextBackground]_vars

---------------------------------------------------------------------------
(* src/utils/http.py and main.py: the codeshot tool *)

INVALID_PARAMS == "INVALID_PARAMS"

INTERNAL_ERROR == "INTERNAL_ERROR"

McpError(code, message) == [kind |-> "McpError", code |-> code, message |-> message]

\* an exception that is not an McpError, by its str()
Exception(message) == [kind |-> "Exception", message |-> message]

MAX_CODE_SIZE == 25000

MAX_LINES == 300

\* fetch_code_from_url, lines 66-69: the comment put after a truncated text
TruncationComment(truncated_content, content_length, line_count) ==
    LET final_line_count == LineCount(truncated_content)
        head == truncated_content \o "\n\n# ... Content truncated for performance"
                   \o "\n# Original: " \o ToString(content_length) \o " chars, "
                   \o ToString(line_count) \o " lines"
    IN head \o "\n# Showing: " \o ToString(Len(head)) \o " chars, "
            \o ToString(final_line_count) \o " lines"

\* the fetch truncation taken at the caps instead of beyond them
TruncateFetched_at_cap(text) ==
    Only({ IF Len(text) >= MAX_CODE_SIZE \/ line_count >= MAX_LINES
           THEN Only({ Only({ TruncationComment(
                                  IF Len(byLines) > MAX_CODE_SIZE
                                  THEN (IF last_newline * 10 > MAX_CODE_SIZE * 8
                                        THEN SubSeq(byLines, 1, last_newline)
                                        ELSE SubSeq(byLines, 1, MAX_CODE_SIZE))
                                  ELSE byLines,
                                  Len(text), line_count) :
                              last_newline \in {IF Len(byLines) > MAX_CODE_SIZE
                                                THEN LastNewline(SubSeq(byLines, 1,
                                                                        MAX_CODE_SIZE))
                                                ELSE -1} }) :
                       byLines \in {IF line_count > MAX_LINES
                                    THEN FirstLines(text, MAX_LINES)
                                    ELSE text} })
           ELSE text :
           line_count \in {LineCount(text)} })

\* fetch_code_from_url, lines 36-74: the text returned for a response body
TruncateFetched(text) ==
    Only({ IF Len(text) > MAX_CODE_SIZE \/ line_count > MAX_LINES
           THEN Only({ Only({ TruncationComment(
                                  IF Len(byLines) > MAX_CODE_SIZE
                                  THEN (IF last_newline * 10 > MAX_CODE_SIZE * 8
                                        THEN SubSeq(byLines, 1, last_newline)
                                        ELSE SubSeq(byLines, 1, MAX_CODE_SIZE))
                                  ELSE byLines,
                                  Len(text), line_count) :
                              last_newline \in {IF Len(byLines) > MAX_CODE_SIZE
                                                THEN LastNewline(SubSeq(byLines, 1,
                                                                        MAX_CODE_SIZE))
                                                ELSE -1} }) :
                       byLines \in {IF line_count > MAX_LINES
                                    THEN FirstLines(text, MAX_LINES)
                                    ELSE text} })
           ELSE text :
           line_count \in {LineCount(text)} })

\* what the one client.get of a fetch meets: a final response (redirects are
\* followed), an httpx.HTTPError, or an exception outside that class
Response(status_code, text) == [kind |-> "response", status_code |-> status_code, text |-> text]

HTTPError(repr) == [kind |-> "HTTPError", repr |-> repr]

NoReply == [kind |-> "none"]

\* fetch_code_from_url: the text it returns or the exception it raises
fetch_code_from_url(url, reply) ==
    CASE reply.kind = "response" ->
            IF reply.status_code >= 400
            THEN McpError(INTERNAL_ERROR, "Failed to fetch " \o url \o " - status code "
                                             \o ToString(reply.status_code))
            ELSE [kind |-> "return", text |-> TruncateFetched(reply.text)]
      [] reply.kind = "HTTPError" ->
            McpError(INTERNAL_ERROR, "Failed to fetch " \o url \o ": " \o reply.repr)
      [] OTHER -> reply

\* the handler that lets every exception through as it is
Caught_reraised(e) == e

\* codeshot, lines 170-178: what leaves the tool when e was raised inside it
Caught(e) ==
    IF e.kind = "McpError" THEN e
    ELSE McpError(INTERNAL_ERROR, "Failed to generate code screenshot: " \o e.message)

\* str() of the AttributeError a validator raises on a value that is not a str
AttributeErrorMessage == "'int' object has no attribute 'lower'"

\* codeshot, lines 142-168: a new generator, one generate call, the two-part
\* reply.  fault is the exception the highlighter raises, if it raises one
Screenshot(trace, req, d, fault) ==
    IF fault # None
    THEN [trace |-> Append(trace, "generate"), loads |-> 0, code |-> PyStr(req.code),
          outcome |-> Caught(Exception(fault.v))]
    ELSE Only({ [trace |-> Append(trace, "generate"), loads |-> FontLoads(out),
                 code |-> PyStr(req.code),
                 outcome |-> IF out.raised THEN Caught(Exception(AttributeErrorMessage))
                             ELSE [kind |-> "response",
                                   content |-> << [type |-> "text",
                                                   text |-> out.response_text],
                                                  [type |-> "image",
                                                   mimeType |-> "image/png",
                                                   data |-> out.img] >>]] :
                out \in {generate(ValidationResult, req, d)} })

\* the tool with the fetch made before the request is looked at
codeshot_fetch_first(req, reply, d, fault) ==
    IF Truthy(req.code_url)
    THEN Only({ IF fetched.kind = "return"
                THEN Screenshot(<< "fetch_code_from_url" >>, [req.style EXCEPT !.code = fetched.text], d, fault)
                ELSE [trace |-> << "fetch_code_from_url" >>, loads |-> 0, code |-> None,
                      outcome |-> Caught(fetched)] :
                fetched \in {fetch_code_from_url(req.code_url.v, reply)} })
    ELSE IF Truthy(req.from_image)
    THEN [trace |-> << >>, loads |-> 0, code |-> None,
          outcome |-> McpError(INVALID_PARAMS, "Image-based code generation is not currently supported. Please provide code text or a code URL instead.")]
    ELSE IF Truthy(req.code)
    THEN Screenshot(<< >>, [req.style EXCEPT !.code = req.code.v], d, fault)
    ELSE [trace |-> << >>, loads |-> 0, code |-> None,
          outcome |-> McpError(INVALID_PARAMS, "Please provide either code text or a code URL.")]

\* codeshot: the components it calls, the load_font calls made, and its outcome
codeshot(req, reply, d, fault) ==
    IF Truthy(req.from_image)
    THEN [trace |-> << >>, loads |-> 0, code |-> None,
          outcome |-> McpError(INVALID_PARAMS, "Image-based code generation is not currently supported. Please provide code text or a code URL instead.")]
    ELSE IF Truthy(req.code_url)
    THEN Only({ IF fetched.kind = "return"
                THEN Screenshot(<< "fetch_code_from_url" >>, [req.style EXCEPT !.code = fetched.text], d, fault)
                ELSE [trace |-> << "fetch_code_from_url" >>, loads |-> 0, code |-> None,
                      outcome |-> Caught(fetched)] :
                fetched \in {fetch_code_from_url(req.code_url.v, reply)} })
    ELSE IF Truthy(req.code)
    THEN Screenshot(<< >>, [req.style EXCEPT !.code = req.code.v], d, fault)
    ELSE [trace |-> << >>, loads |-> 0, code |-> None,
          outcome |-> McpError(INVALID_PARAMS, "Please provide either code text or a code URL.")]

ToolUrl == "https://example.com/a.py"

\* the arguments of a tool call: the code source and two sets of style options
ToolRequests ==
    [code : {None, PyStr(""), PyStr("x = 1")},
     code_url : {None, PyStr(ToolUrl)},
     from_image : {PyBool(FALSE), PyBool(TRUE)},
     style : {BaseRequest, [BaseRequest EXCEPT !.background = PyInt(5)],
              [BaseRequest EXCEPT !.frame_style = PyStr("windows"), !.watermark = PyStr("@me")]}]

StatusCodes == {200, 204, 299, 300, 304, 399, 400, 404, 500}

\* what the network can answer
Replies ==
    {Response(status_code, text) : status_code \in StatusCodes, text \in {"", "x = 1"}}
    \cup {Response(200, text) : text \in {LinesOf("x", 300), LinesOf("x", 301), Repeat("a", 25000), Repeat("a", 25001), Repeat("a", 24000) \o "\n" \o Repeat("b", 2000), Repeat("a", 10000) \o "\n" \o Repeat("b", 16000), LinesOf(Repeat("a", 99), 400)}}
    \cup {HTTPError("ConnectError('All connection attempts failed')"),
          HTTPError("ReadTimeout('')"),
          HTTPError("TooManyRedirects('Exceeded maximum allowed redirects.')"),
          Exception("URL too long")}

Faults == {None, PyStr("No usable fonts named: \"DejaVu Sans Mono\"")}

\* one call of the codeshot tool
Codeshot ==
    /\ ~tool.done
    /\ \E req \in ToolRequests, reply \in Replies, fault \in Faults :
         \E d \in DrawsFor(req.style) :
            \E r \in {codeshot(req, reply, d, fault)} :
               /\ tool' = [done |-> TRUE, req |-> req,
                           reply |-> IF r.trace # << >> /\ r.trace[1] = "fetch_code_from_url" THEN reply ELSE NoReply,
                           fault |-> IF r.trace # << >> /\ r.trace[Len(r.trace)] = "generate" THEN fault ELSE None,
                           trace |-> r.trace, code_content |-> r.code, outcome |-> r.outcome]
               /\ sys_path' = LoadFonts(sys_path, r.loads)
    /\ UNCHANGED <<validation_result, ret, last, prev, calls, geo, shot, bg, det>>

SpecTool == Init /\ [][Codeshot]_vars

---------------------------------------------------------------------------
(* The option domains, as the specification enumerates them *)

IsHexColour(s) ==
    /\ Len(s) \in {4, 7}
    /\ CharAt(s, 1) = "#"
    /\ \A i \in 2..Len(s) :
          CharAt(s, i) \in {"0", "1", "2", "3", "4", "5", "6", "7", "8", "9",
                            "a", "b", "c", "d", "e", "f", "A", "B", "C", "D", "E", "F"}

InDomain(fn, x) ==
    CASE fn = "validate_theme" -> x.k = "str" /\ x.v \in Range(AVAILABLE_THEMES)
      [] fn = "validate_frame_style" ->
            x.k = "str" /\ x.v \in {"macos", "windows", "floating", "minimal", "none"}
      [] fn = "validate_background" ->
            x.k = "str" /\ (x.v \in Range(AVAILABLE_BACKGROUNDS) \/ IsHexColour(x.v))
      [] fn = "validate_font_family" -> x.k = "str" /\ x.v \in Range(AVAILABLE_FONTS)
      [] fn = "validate_font_size" -> x.k = "int" /\ x.v >= 8 /\ x.v <= 32
      [] fn = "validate_boolean_with_random" -> x.k = "bool"
      [] OTHER -> FALSE

\* a value that is given and does not lie in the domain
PresentInvalid(fn, x) == x.k # "none" /\ ~InDomain(fn, x)

DocumentedDefault(r) ==
    CASE r.fn = "validate_theme" -> PyStr("dracula")
      [] r.fn = "validate_frame_style" -> PyStr("macos")
      [] r.fn = "validate_background" -> PyStr("purple")
      [] r.fn = "validate_font_family" -> PyStr("fira-code")
      [] r.fn = "validate_font_size" -> PyInt(14)
      [] OTHER -> r.default

\* the options of a generate call: the validator the specification gives each,
\* the name it is recorded under and its documented default
Options ==
    {"theme", "frame_style", "background", "font_family", "font_size", "shadow",
     "rounded_corners", "border_glow", "reflection", "line_numbers"}

\* the options a request can leave unset
UnsettableOptions == Options \ {"reflection", "line_numbers"}

OptionValidator ==
    [theme |-> "validate_theme", frame_style |-> "validate_frame_style",
     background |-> "validate_background", font_family |-> "validate_font_family",
     font_size |-> "validate_font_size", shadow |-> "validate_boolean_with_random",
     rounded_corners |-> "validate_boolean_with_random",
     border_glow |-> "validate_boolean_with_random",
     reflection |-> "validate_boolean_with_random",
     line_numbers |-> "validate_boolean_with_random"]

OptionName ==
    [theme |-> "Theme", frame_style |-> "Frame", background |-> "Background",
     font_family |-> "Font", font_size |-> "Font Size", shadow |-> "Shadow",
     rounded_corners |-> "Rounded Corners", border_glow |-> "Border Glow",
     reflection |-> "Reflection", line_numbers |-> "Line Numbers"]

OptionDefault ==
    [theme |-> PyStr("dracula"), frame_style |-> PyStr("macos"),
     background |-> PyStr("purple"), font_family |-> PyStr("fira-code"),
     font_size |-> PyInt(14), shadow |-> PyBool(TRUE),
     rounded_corners |-> PyBool(TRUE), border_glow |-> PyBool(FALSE),
     reflection |-> PyBool(FALSE), line_numbers |-> PyBool(TRUE)]

\* every option of the request, and the language, has an explicit value
FullySpecified(req) ==
    /\ \A f \in UnsettableOptions : req[f].k # "none"
    /\ req.language.k # "none"

\* C1: whatever a validator is given (nothing, a valid value, an invalid value of
\* any kind), it returns a value and that value lies in the option's domain; the
\* boolean validator always returns a boolean.
C1_ReturnedValueInDomain ==
    ret.fn # "" => (~ret.raised /\ InDomain(ret.fn, ret.value))

\* C2: validation never raises: every present-but-invalid value, one of the wrong
\* type included, makes the validator return normally.
C2_ValidationNeverRaises ==
    (ret.fn # "" /\ PresentInvalid(ret.fn, ret.arg)) => ~ret.raised

\* C3: a present-but-invalid value makes the validator return exactly the
\* documented default and append exactly one fallback notice that contains the
\* original value, the random selections left as they were.
C3_InvalidFallsBackToDefault ==
    (ret.fn # "" /\ PresentInvalid(ret.fn, ret.arg)) =>
        /\ ~ret.raised
        /\ ret.value = DocumentedDefault(ret)
        /\ validation_result.random_selections = ret.before.random_selections
        /\ Len(validation_result.fallback_notifications)
              = Len(ret.before.fallback_notifications) + 1
        /\ SubSeq(validation_result.fallback_notifications, 1,
                  Len(ret.before.fallback_notifications))
              = ret.before.fallback_notifications
        /\ Contains(validation_result.fallback_notifications[
                        Len(validation_result.fallback_notifications)],
                    PyRepr(ret.arg))

\* the fallback notices a call appended to the result object it started from
NoticesOf(call) ==
    SubSeq(call.out.validation_result.fallback_notifications,
           Len(call.start.fallback_notifications) + 1,
           Len(call.out.validation_result.fallback_notifications))

\* the random selections a call appended to the result object it started from
SelectionsOf(call) ==
    SubSeq(call.out.validation_result.random_selections,
           Len(call.start.random_selections) + 1,
           Len(call.out.validation_result.random_selections))

\* C4: for every option and every boolean toggle of a generate call (line numbers,
\* shadow, reflection, rounded corners, border glow) that is given an invalid
\* value, the summary has a 'Fallbacks Applied' notice for that value and the
\* value used is the documented default.
C4_InvalidOptionFallsBack ==
    last.done =>
        \A f \in Options :
            PresentInvalid(OptionValidator[f], last.req[f]) =>
                /\ ~last.out.raised
                /\ Contains(last.out.response_text, "**Fallbacks Applied**: ")
                /\ \E i \in 1..Len(NoticesOf(last)) :
                      /\ Contains(NoticesOf(last)[i], PyRepr(last.req[f]))
                      /\ Contains(last.out.response_text, NoticesOf(last)[i])
                /\ last.out[f] = OptionDefault[f]

\* C5: every option left unset in a generate call resolves to a value of its
\* domain, and its name is recorded as randomly selected and listed in the
\* summary's 'Random:' section, whatever the draw produced.
C5_UnsetIsRecordedAsRandom ==
    last.done =>
        \A f \in UnsettableOptions :
            last.req[f].k = "none" =>
                /\ ~last.out.raised
                /\ InDomain(OptionValidator[f], last.out[f])
                /\ \E i \in 1..Len(SelectionsOf(last)) :
                      SelectionsOf(last)[i] = OptionName[f]
                /\ Contains(last.out.response_text,
                            " * Random: "
                               \o Join(last.out.validation_result.random_selections,
                                       ", ")
                               \o " :game_die:")

\* C6: a present and valid value is returned unchanged and nothing is appended to
\* the random selections or to the fallback notices.
C6_ValidPassesThrough ==
    (ret.fn # "" /\ ret.arg.k # "none" /\ InDomain(ret.fn, ret.arg)) =>
        /\ ~ret.raised
        /\ ret.value = ret.arg
        /\ validation_result = ret.before

\* a three-digit hex colour passed through a result that already holds a notice
C6_Witness ==
    /\ ret.fn = "validate_background"
    /\ ret.arg = PyStr("#fff")
    /\ ret.value = PyStr("#fff")
    /\ NotesIn(ret.before) > 0
    /\ validation_result = ret.before

\* C7: two generate calls with the same arguments, none of them left unset, give
\* the same PNG and the same summary text, on the same generator too.
C7_RepeatedCallIsIdentical ==
    (last.done /\ prev.done /\ FullySpecified(last.req)) =>
        /\ last.out.raised = prev.out.raised
        /\ last.out.img = prev.out.img
        /\ last.out.response_text = prev.out.response_text

\* C8: every generate call starts from an empty ValidationResult, so that its
\* summary lists only the random selections and the fallbacks of that call.
C8_ValidationResultFreshPerCall ==
    last.done =>
        /\ last.start = ValidationResult
        /\ last.out.validation_result.random_selections = SelectionsOf(last)
        /\ last.out.validation_result.fallback_notifications = NoticesOf(last)

\* the one order of the stages
StageOrder ==
    << "validate", "detect_language", "render", "round_corners", "geometry",
       "background", "chrome", "shadow", "paste", "reflection", "glow", "watermark",
       "encode", "summary" >>

StageRank(stage) == CHOOSE i \in 1..Len(StageOrder) : StageOrder[i] = stage

\* the layer a drawing on the canvas belongs to
LayerRank(what) ==
    IF Contains(what, "title bar") THEN StageRank("chrome")
    ELSE IF Contains(what, "shadow") THEN StageRank("shadow")
    ELSE IF Contains(what, "code image") THEN StageRank("paste")
    ELSE IF what = "reflection" THEN StageRank("reflection")
    ELSE IF what = "glow" THEN StageRank("glow")
    ELSE IF Contains(what, "watermark: ") THEN StageRank("watermark")
    ELSE StageRank("background")

\* what the composition drew on the canvas, the rendering of the code left out
Layers(out) == SubSeq(out.img.drawn, 7, Len(out.img.drawn))

\* C9: the stages that run in a generate call are in the one fixed order, whatever
\* effects are enabled; a disabled effect only leaves its stage out.  The shadow
\* comes before the paste, and reflection, glow and watermark after it, in that
\* order, in the list of stages and on the canvas.
C9_StageOrderFixed ==
    last.done =>
        /\ \A i \in 1..Len(last.out.stages) :
              \E k \in 1..Len(StageOrder) : StageOrder[k] = last.out.stages[i]
        /\ \A i, j \in 1..Len(last.out.stages) :
              i < j => StageRank(last.out.stages[i]) < StageRank(last.out.stages[j])
        /\ ~last.out.raised =>
              /\ \A i, j \in 1..Len(Layers(last.out)) :
                    i < j => LayerRank(Layers(last.out)[i])
                                < LayerRank(Layers(last.out)[j])
              /\ \A stage \in {"validate", "detect_language", "render", "geometry",
                               "background", "paste", "encode", "summary"} :
                    \E i \in 1..Len(last.out.stages) : last.out.stages[i] = stage

\* a call with the shadow, the reflection, the glow and the watermark on and the
\* rounded corners off
C9_Witness ==
    /\ last.done
    /\ ~last.out.raised
    /\ last.out.stages
          = << "validate", "detect_language", "render", "geometry", "background",
               "chrome", "shadow", "paste", "reflection", "glow", "watermark",
               "encode", "summary" >>
    /\ Len(Layers(last.out)) = 7

\* C10 as stated: with a frame style other than 'none', enabling the reflection
\* makes the frame higher by exactly half the code image's height (integer half)
\* and leaves its width as it was, with the shadow on and with the shadow off.
C10_ReflectionAddsHalfHeight ==
    (geo.done /\ geo.frame_style # "none") =>
        /\ geo.reflected.frame_height
              = geo.plain.frame_height + (geo.code_height \div 2)
        /\ geo.reflected.frame_width = geo.plain.frame_width

\* C10, amended: with the shadow on, the reflection adds half the code image's
\* height and leaves the width; with the shadow off it also widens the margin
\* from 20 to EXTRA_SPACE, in the height and in the width.
C10_ReflectionGrowth ==
    geo.done =>
        /\ geo.reflected.frame_height
              = geo.plain.frame_height + (geo.code_height \div 2)
                  + (IF geo.shadow THEN 0 ELSE EXTRA_SPACE - 20)
        /\ geo.reflected.frame_width
              = geo.plain.frame_width + (IF geo.shadow THEN 0 ELSE EXTRA_SPACE - 20)

\* a code image of odd height in a frame without shadow
C10_Witness ==
    /\ geo.done
    /\ geo.frame_style = "macos"
    /\ ~geo.shadow
    /\ geo.code_height = 11
    /\ geo.reflected.frame_height = geo.plain.frame_height + 5 + 20

\* s.endswith(p)
EndsWith(s, p) == Len(s) >= Len(p) /\ SubSeq(s, Len(s) - Len(p) + 1, Len(s)) = p

\* C12: create_code_image appends the truncation notice exactly when the code has
\* more than 150 lines or more than 15,000 characters; a code within both caps
\* reaches the highlighter as it was given.
C12_NoticeIffOverCap ==
    shot.done =>
        IF LineCount(shot.code) > 150 \/ Len(shot.code) > 15000
        THEN /\ shot.img.text # shot.code
             /\ EndsWith(shot.img.text,
                          "\n\n... (content truncated for image generation)")
        ELSE shot.img.text = shot.code

\* a text of 151 lines, cut to 150 lines and the notice
C12_Witness ==
    /\ shot.done
    /\ LineCount(shot.code) = 151
    /\ LineCount(shot.img.text) = 152
    /\ EndsWith(shot.img.text, TruncationNotice)

\* C13: a text of 250 lines is rendered in the low quality class, at scale 1 and
\* with a font 4px smaller than requested, while a text of at most 50 lines is
\* rendered at the requested size.
C13_LongInputLowQuality ==
    shot.done =>
        /\ LineCount(shot.code) = 250 =>
              /\ shot.img.quality_scale = 1
              /\ shot.img.font_size = shot.font_size - 4
        /\ LineCount(shot.code) <= 50 /\ Len(shot.code) <= 10000 =>
              shot.img.font_size = shot.font_size

\* C20: the quality tier of the text that is rendered (truncated or not): up to
\* 10,000 characters and 100 lines the full scale and the requested font size;
\* beyond that, up to 20,000 characters and 200 lines, the medium scale and the
\* size less exactly 2px; beyond that scale 1 and the size less exactly 4px; for
\* every requested size from 8 to 32.
C20_QualityTiers ==
    shot.done =>
        LET chars == Len(shot.img.text)
            lines == LineCount(shot.img.text)
        IN IF chars <= 10000 /\ lines <= 100
           THEN /\ shot.img.quality_scale = 3
                /\ shot.img.font_size = shot.font_size
           ELSE IF chars <= 20000 /\ lines <= 200
           THEN /\ shot.img.quality_scale = 2
                /\ shot.img.font_size = shot.font_size - 2
           ELSE /\ shot.img.quality_scale = 1
                /\ shot.img.font_size = shot.font_size - 4

\* C11: the encoded image keeps an alpha channel exactly when the resolved
\* background is 'transparent'; with any other background it is flattened to RGB,
\* whichever of chrome, shadow, reflection, glow and watermark ran.
C11_AlphaIffTransparent ==
    (last.done /\ ~last.out.raised) =>
        /\ last.out.img.mode = "RGBA" <=> last.out.background.v = "transparent"
        /\ last.out.background.v # "transparent" => last.out.img.mode = "RGB"

\* a solid background under a shadow, a reflection, a glow and a watermark, each
\* of which left the canvas with an alpha channel
C11_Witness ==
    /\ last.done
    /\ ~last.out.raised
    /\ last.out.background.v = "purple"
    /\ last.out.effects = << "Shadow", "Reflection", "Glow", "Rounded" >>
    /\ Len(Layers(last.out)) = 7
    /\ last.out.img.mode = "RGB"

\* the frame size the specification gives for a code image
DocumentedFrame(code_width, code_height, frame_style, shadow, reflection) ==
    LET title_bar == IF frame_style = "none" THEN 0 ELSE TITLE_BAR_HEIGHT
        extra == IF shadow \/ reflection THEN 40 ELSE 20
    IN [title_bar |-> title_bar,
        frame_width |-> code_width + 2 * PADDING + extra,
        frame_height |-> code_height + 2 * PADDING + title_bar + extra
                           + (IF reflection THEN code_height \div 2 ELSE 0)]

\* C19: frame_width = code_width + 2*PADDING + extra and frame_height =
\* code_height + 2*PADDING + title_bar + extra, plus code_height div 2 under a
\* reflection; title_bar is 0 exactly for the frame style 'none' and
\* TITLE_BAR_HEIGHT for the others; extra is 40 with shadow or reflection and 20
\* without.
C19_FrameGeometryFormula ==
    geo.done =>
        \A reflection \in BOOLEAN :
            LET g == IF reflection THEN geo.reflected ELSE geo.plain
                doc == DocumentedFrame(geo.code_width, geo.code_height,
                                       geo.frame_style, geo.shadow, reflection)
            IN /\ g.frame_width = doc.frame_width
               /\ g.frame_height = doc.frame_height
               /\ g.title_bar_height = doc.title_bar
               /\ g.title_bar_height = 0 <=> geo.frame_style = "none"
               /\ geo.frame_style \in {"macos", "windows", "floating", "minimal"}
                     => g.title_bar_height = 50

\* a frame without chrome, shadow or reflection still has the title bar's height
\* and the small margin
C19_Witness ==
    /\ geo.done
    /\ geo.frame_style = "minimal"
    /\ ~geo.shadow
    /\ geo.code_width = 3
    /\ geo.code_height = 12
    /\ geo.plain.frame_width = 3 + 160 + 20
    /\ geo.plain.frame_height = 12 + 160 + 50 + 20
    /\ geo.reflected.frame_height = 12 + 160 + 50 + 40 + 6

SummaryHead == ":art: **Code Screenshot Generated!**\n\n**Language**: "

\* what the summary shows in its Language field, up to the end of the line
LanguageField(text) ==
    SubSeq(text, Len(SummaryHead) + 1,
           First({i \in (Len(SummaryHead) + 1)..Len(text) : CharAt(text, i) = "\n"}) - 1)

\* C17: a language given to generate is what detect_language returns, unchanged
\* and unchecked against any list of lexers, and it is the language the summary's
\* Language field shows (there with its first letter in upper case and the others
\* in lower case).
C17_ExplicitLanguageKept ==
    (last.done /\ ~last.out.raised /\ last.req.language.k = "str"
        /\ last.req.language.v # "") =>
        /\ last.out.language = last.req.language.v
        /\ StartsWith(last.out.response_text, SummaryHead)
        /\ Lower(LanguageField(last.out.response_text)) = Lower(last.req.language.v)

\* a language no lexer is named after
C17_Witness ==
    /\ last.done
    /\ last.req.language = PyStr("klingon")
    /\ last.out.language = "klingon"
    /\ LanguageField(last.out.response_text) = "Klingon"

\* C18: nothing outlives a request: after a generate call the interpreter's state
\* (here the module search path) and the state the generator holds (its
\* ValidationResult) are what they were before the call.
C18_NoStateOutlivesRequest ==
    last.done =>
        /\ sys_path = last.path
        /\ validation_result = last.start

\* the call invoked the component
Invoked(component) == \E i \in 1..Len(tool.trace) : tool.trace[i] = component

\* C14: a codeshot call with from_image set, or with neither code text nor a code
\* URL, fails with INVALID_PARAMS (as unsupported, as missing its code source), and
\* neither the fetch nor the generator has been invoked.
C14_StructuralProblemsRejectedFirst ==
    tool.done =>
        /\ Truthy(tool.req.from_image) =>
              /\ tool.outcome.kind = "McpError"
              /\ tool.outcome.code = INVALID_PARAMS
              /\ Contains(tool.outcome.message, "not currently supported")
              /\ tool.trace = << >>
              /\ sys_path = << >>
        /\ ~Truthy(tool.req.from_image) /\ ~Truthy(tool.req.code) /\ ~Truthy(tool.req.code_url) =>
              /\ tool.outcome.kind = "McpError"
              /\ tool.outcome.code = INVALID_PARAMS
              /\ tool.outcome.message = "Please provide either code text or a code URL."
              /\ tool.trace = << >>
              /\ sys_path = << >>

\* a call with from_image set and a URL to fetch, rejected with nothing invoked
C14_Witness ==
    /\ tool.done
    /\ Truthy(tool.req.from_image)
    /\ Truthy(tool.req.code_url)
    /\ tool.outcome.kind = "McpError"
    /\ tool.trace = << >>

FailedToGenerate == "Failed to generate code screenshot: "

\* C15: a codeshot call ends with the two-part response (a text, then a PNG image)
\* or with an McpError; an exception that is not an McpError, raised by the fetch
\* or by the generator, leaves the tool as an INTERNAL_ERROR McpError whose message
\* carries the exception's own.
C15_ResponseOrMcpError ==
    tool.done =>
        /\ \/ /\ tool.outcome.kind = "response"
              /\ Len(tool.outcome.content) = 2
              /\ tool.outcome.content[1].type = "text"
              /\ tool.outcome.content[1].text # ""
              /\ tool.outcome.content[2].type = "image"
              /\ tool.outcome.content[2].mimeType = "image/png"
              /\ tool.outcome.content[2].data # NoImage
           \/ /\ tool.outcome.kind = "McpError"
              /\ tool.outcome.code \in {INVALID_PARAMS, INTERNAL_ERROR}
        /\ tool.reply.kind = "Exception" =>
              tool.outcome = McpError(INTERNAL_ERROR, FailedToGenerate \o tool.reply.message)
        /\ tool.fault # None =>
              tool.outcome = McpError(INTERNAL_ERROR, FailedToGenerate \o tool.fault.v)
        /\ Invoked("generate") /\ tool.fault = None /\ tool.req.style.background = PyInt(5) =>
              tool.outcome = McpError(INTERNAL_ERROR, FailedToGenerate \o AttributeErrorMessage)

\* the highlighter raised during a call that had fetched its code
C15_Witness ==
    /\ tool.done
    /\ tool.fault # None
    /\ tool.trace = << "fetch_code_from_url", "generate" >>
    /\ tool.outcome.kind = "McpError"
    /\ tool.outcome.code = INTERNAL_ERROR

\* C16: fetch_code_from_url raises an McpError naming the URL and the status for
\* every final response whose status is not 2xx, and one naming the URL and the
\* cause for every transport error; only a 2xx response yields text; the request
\* is sent once.
C16_FetchFailureSurfaced ==
    tool.done /\ Invoked("fetch_code_from_url") =>
        /\ Cardinality({i \in 1..Len(tool.trace) : tool.trace[i] = "fetch_code_from_url"}) = 1
        /\ tool.reply.kind = "response" /\ tool.reply.status_code \notin 200..299 =>
              /\ tool.outcome.kind = "McpError"
              /\ Contains(tool.outcome.message, ToolUrl)
              /\ EndsWith(tool.outcome.message, ToString(tool.reply.status_code))
              /\ ~Invoked("generate")
        /\ tool.reply.kind = "HTTPError" =>
              /\ tool.outcome.kind = "McpError"
              /\ Contains(tool.outcome.message, ToolUrl)
              /\ EndsWith(tool.outcome.message, tool.reply.repr)
        /\ Invoked("generate") => tool.reply.kind = "response" /\ tool.reply.status_code \in 200..299

\* the rendered text without the truncation notice
ImageBody == SubSeq(shot.img.text, 1, Len(shot.img.text) - Len(TruncationNotice))

\* the length of the first 150 lines of a text, line breaks between them included
LinesCapLength(code) == Only({ IF Cardinality(breaks) + 1 > MAX_LINES_FOR_IMAGE THEN (CHOOSE i \in breaks : Cardinality({j \in breaks : j < i}) = MAX_LINES_FOR_IMAGE - 1) - 1 ELSE Len(code) : breaks \in {Newlines(code)} })

\* C21: a code over 150 lines or 15,000 characters is rendered as a prefix of
\* itself followed by the truncation notice; the prefix has at most 150 lines and
\* 15,000 characters: it is the first 150 lines cut at 15,000 characters, taken
\* back to the last line break of the cut only when that break lies beyond 80% of
\* the cap.
C21_TruncationIsCappedPrefix ==
    shot.done /\ (LineCount(shot.code) > 150 \/ Len(shot.code) > 15000) =>
        /\ EndsWith(shot.img.text, TruncationNotice)
        /\ ImageBody = SubSeq(shot.code, 1, Len(ImageBody))
        /\ Len(ImageBody) <= 15000
        /\ LineCount(ImageBody) <= 150
        /\ \E lines \in {LinesCapLength(shot.code)} :
              IF lines <= 15000 THEN Len(ImageBody) = lines
              ELSE \E last_newline \in {LastNewline(SubSeq(shot.code, 1, 15000))} :
                      Len(ImageBody) = IF last_newline > 12000 THEN last_newline ELSE 15000

\* a code cut at 15,000 characters and taken back to a line break beyond 80%
C21_Witness ==
    /\ shot.done
    /\ Len(shot.code) > 15000
    /\ Len(shot.img.text) = 14000 + Len(TruncationNotice)
    /\ EndsWith(shot.img.text, TruncationNotice)

\* C22 as stated: 'transparent' gives a transparent RGBA canvas, a named colour a
\* solid RGB canvas in that colour, a text beginning with '#' a solid RGB canvas
\* in that literal colour, and every other text, the 'neon-' and 'gradient-'
\* prefixed ones included, the neutral dark colour; the canvas has the requested
\* width and height.
C22_BackgroundMapping ==
    bg.done =>
        /\ bg.img.width = bg.width /\ bg.img.height = bg.height
        /\ bg.img = IF bg.background = "transparent"
                    THEN Canvas(bg.width, bg.height, "RGBA", << "transparent" >>)
                    ELSE IF bg.background \in Range(BACKGROUND_COLORS)
                    THEN Canvas(bg.width, bg.height, "RGB", << "solid " \o BackgroundColor(bg.background) >>)
                    ELSE IF StartsWith(bg.background, "#")
                    THEN Canvas(bg.width, bg.height, "RGB", << "solid " \o bg.background >>)
                    ELSE Canvas(bg.width, bg.height, "RGB", << "solid #1a1a2e" >>)

\* C22, amended: the two prefixes are looked at before the table, a 'gradient-'
\* text giving solid #8B5CF6 and a 'neon-' text the blurred grid on black; a '#'
\* text gives its literal colour when it is a colour Image.new takes; every other
\* text gives #1a1a2e.
C22_BackgroundMappingWithPrefixes ==
    bg.done /\ ~(StartsWith(bg.background, "#") /\ ~ColorLiteral(bg.background)) =>
        /\ bg.img.width = bg.width /\ bg.img.height = bg.height
        /\ bg.img = IF bg.background = "transparent"
                    THEN Canvas(bg.width, bg.height, "RGBA", << "transparent" >>)
                    ELSE IF StartsWith(bg.background, "gradient-")
                    THEN Canvas(bg.width, bg.height, "RGB", << "solid #8B5CF6" >>)
                    ELSE IF StartsWith(bg.background, "neon-")
                    THEN Canvas(bg.width, bg.height, "RGB", << "neon grid" >>)
                    ELSE IF bg.background \in Range(BACKGROUND_COLORS)
                    THEN Canvas(bg.width, bg.height, "RGB", << "solid " \o BackgroundColor(bg.background) >>)
                    ELSE IF StartsWith(bg.background, "#")
                    THEN Canvas(bg.width, bg.height, "RGB", << "solid " \o bg.background >>)
                    ELSE Canvas(bg.width, bg.height, "RGB", << "solid #1a1a2e" >>)

\* an unvalidated 'neon-' text that is no member of the background list
C22_Witness ==
    /\ bg.done
    /\ ~bg.validated
    /\ bg.background = "neon-green"
    /\ bg.img.drawn = << "neon grid" >>

\* C23 as stated: no value validate_background returns makes
\* create_frame_background take its 'neon-' or its 'gradient-' branch.
C23_PrefixBranchesUnreachable ==
    bg.done /\ bg.validated => BackgroundBranch(bg.background) \notin {"neon-", "gradient-"}

\* C23, amended: no value validate_background returns takes the 'gradient-'
\* branch, and 'neon-purple', a member of AVAILABLE_BACKGROUNDS, is the only one
\* that takes the 'neon-' branch.
C23_OnlyNeonPurpleReachesPrefix ==
    bg.done /\ bg.validated =>
        /\ BackgroundBranch(bg.background) # "gradient-"
        /\ BackgroundBranch(bg.background) = "neon-" <=> bg.background = "neon-purple"
        /\ bg.background = "neon-purple" => bg.img.drawn = << "neon grid" >>

\* a 'gradient-' text given to the validator and replaced by the default
C23_Witness ==
    /\ bg.done
    /\ bg.validated
    /\ bg.arg = PyStr("gradient-purple")
    /\ bg.background = "purple"

\* the four languages in the order of the scores dict, and their hint sets
HintedLanguages == << "python", "javascript", "java", "rust" >>

HintSets == << python_hints, js_hints, java_hints, rust_hints >>

\* the score of the i-th language on the detection's code, lower-cased
ScoreOf(i) == HintScore(HintSets[i], Lower(det.code))

\* C24: with no language given, a best score of at least 2 over the four hint
\* sets returns the first language, in the order python, javascript, java, rust,
\* that attains the best score, whatever the generic guesser would say or raise;
\* with every score below 2 the guesser decides, and 'python' is returned when it
\* raises.
C24_HintScoreDecides ==
    det.done /\ ~Truthy(det.language) =>
        IF \E i \in 1..4 : ScoreOf(i) >= 2
        THEN \E i \in 1..4 :
                /\ det.detected = HintedLanguages[i]
                /\ \A j \in 1..4 : ScoreOf(j) <= ScoreOf(i)
                /\ \A j \in 1..(i - 1) : ScoreOf(j) < ScoreOf(i)
        ELSE /\ det.guess = None => det.detected = "python"
             /\ det.guess \in {PyStr("text only"), PyStr("scheme")} => det.detected = det.guess.v

\* javascript and java tie at two hints each, and the guesser raises
C24_Witness ==
    /\ det.done
    /\ det.language = None
    /\ det.guess = None
    /\ ScoreOf(2) = 2 /\ ScoreOf(3) = 2 /\ ScoreOf(1) < 2 /\ ScoreOf(4) < 2
    /\ det.detected = "javascript"

\* the length of the first n lines of a text, the line breaks between them included
FirstLinesLength(code, n) == Only({ IF Cardinality(breaks) + 1 > n THEN (CHOOSE i \in breaks : Cardinality({j \in breaks : j < i}) = n - 1) - 1 ELSE Len(code) : breaks \in {Newlines(code)} })

\* the tool fetched its code and the fetch returned a text
Fetched == tool.done /\ tool.reply.kind = "response" /\ tool.code_content # None

TruncationCommentHead == "\n\n# ... Content truncated for performance"

\* the length of the part of a body the fetch keeps
KeptLength(text) ==
    Only({ IF lines <= 25000 THEN lines
           ELSE Only({ IF last_newline > 20000 THEN last_newline ELSE 25000 :
                       last_newline \in {LastNewline(SubSeq(text, 1, 25000))} }) :
           lines \in {FirstLinesLength(text, 300)} })

\* C25: a fetched body of at most 25,000 characters and 300 lines is returned as
\* it is; a larger one is returned as its first 300 lines cut at 25,000
\* characters (taken back to the last line break of the cut only when that break
\* lies beyond 80% of the cap) followed by the truncation comment, which states
\* the lengths; the comment is there exactly when a cap was exceeded.
C25_FetchTruncation ==
    Fetched =>
        \E body \in {tool.reply.text}, text \in {tool.code_content.v} :
           IF Len(body) <= 25000 /\ LineCount(body) <= 300
           THEN text = body /\ ~Contains(text, TruncationCommentHead)
           ELSE \E kept \in {KeptLength(body)} :
                   /\ SubSeq(text, 1, kept) = SubSeq(body, 1, kept)
                   /\ StartsWith(SubSeq(text, kept + 1, Len(text)), TruncationCommentHead \o "\n# Original: " \o ToString(Len(body)) \o " chars, " \o ToString(LineCount(body)) \o " lines\n# Showing: ")
                   /\ EndsWith(text, " chars, " \o ToString(LineCount(SubSeq(body, 1, kept))) \o " lines")

\* 400 lines of 100 characters: 300 lines kept, cut at 25,000 and taken back to
\* the line break at 24,999
C25_Witness ==
    /\ Fetched
    /\ LineCount(tool.reply.text) = 400
    /\ Len(tool.reply.text) > 25000
    /\ StartsWith(SubSeq(tool.code_content.v, 25000, Len(tool.code_content.v)), TruncationCommentHead)

\* the text create_code_image handed to the highlighter, for a call that returned
\* an image
Highlighted == tool.outcome.content[2].data.drawn[1]

\* C29: a text the fetch truncated is over a cap of the renderer (150 lines or
\* 15,000 characters), so create_code_image truncates it again, and the text the
\* highlighter gets holds nothing of the fetch's truncation comment.
C29_FetchCommentNeverRendered ==
    Fetched /\ Contains(tool.code_content.v, TruncationCommentHead) =>
        /\ LineCount(tool.code_content.v) > 150 \/ Len(tool.code_content.v) > 15000
        /\ tool.outcome.kind = "response" =>
              /\ EndsWith(Highlighted, TruncationNotice)
              /\ ~Contains(Highlighted, "# ... Content truncated")
              /\ ~Contains(Highlighted, "# Original: ")
              /\ ~Contains(Highlighted, "# Showing: ")

\* 301 short lines: the fetch keeps 300, the renderer 150
C29_Witness ==
    /\ Fetched
    /\ LineCount(tool.reply.text) = 301
    /\ Contains(tool.code_content.v, TruncationCommentHead)
    /\ tool.outcome.kind = "response"
    /\ LineCount(Highlighted) = 152

\* C26: with the reflection on, the reflection (as high as the code image and
\* pasted 15 pixels below it) lies inside the canvas, for every height of the code
\* image and every frame style.
C26_ReflectionInsideFrame ==
    geo.done =>
        /\ geo.reflected.code_y + geo.code_height + 15 + geo.code_height <= geo.reflected.frame_height
        /\ geo.reflected.code_x + geo.code_width <= geo.reflected.frame_width

\* C27: the summary lists 'Shadow' among the effects exactly when the shadow
\* stage ran in that call, for every frame style, 'none' included.
C27_ShadowListedIffApplied ==
    (last.done /\ ~last.out.raised) =>
        ((\E i \in 1..Len(last.out.effects) : last.out.effects[i] = "Shadow")
            <=> (\E i \in 1..Len(last.out.stages) : last.out.stages[i] = "shadow"))

\* C28: the font size the summary reports is the font size the code image was
\* rendered with, also for a code large enough for a reduced quality tier.
C28_SummaryFontIsRendered ==
    (tool.done /\ tool.outcome.kind = "response") =>
        Contains(tool.outcome.content[1].text,
                 " (" \o tool.outcome.content[2].data.drawn[4] \o "px)\n")

\* the Size field of the summary for a frame of the given size
SizeField(frame_width, frame_height) == "**Size**: " \o ToString(frame_width) \o "x" \o ToString(frame_height) \o "px"

\* C30: the encoded image is as wide and as high as the canvas the background
\* stage made (frame_width x frame_height), whichever of chrome, shadow, paste,
\* reflection, glow, watermark and flattening ran on it; that size is the Size
\* of the summary; and the code image's paste rectangle lies inside the canvas.
C30_CanvasSizeKept ==
    (last.done /\ ~last.out.raised) =>
        /\ last.out.img.width = last.out.geometry.frame_width
        /\ last.out.img.height = last.out.geometry.frame_height
        /\ last.out.img.width = last.out.code_width + 2 * PADDING + last.out.geometry.extra_space
        /\ Contains(last.out.response_text, SizeField(last.out.img.width, last.out.img.height))
        /\ last.out.geometry.code_x >= 0 /\ last.out.geometry.code_y >= 0
        /\ last.out.geometry.code_x + last.out.code_width <= last.out.img.width
        /\ last.out.geometry.code_y + last.out.code_height <= last.out.img.height

\* every stage ran on a canvas with a windows frame
C30_Witness ==
    /\ last.done
    /\ ~last.out.raised
    /\ last.out.frame_style.v = "windows"
    /\ \A stage \in {"chrome", "shadow", "paste", "reflection", "glow", "watermark"} : \E i \in 1..Len(last.out.stages) : last.out.stages[i] = stage
    /\ last.out.img.width > 0

=============================================================================
